---- MODULE Spec2Model ----
(***************************************************************************)
(* A model of the blog content pipeline of kreitzer-dot-dev:               *)
(*   - the content loader of lib/blog.ts (getAllPosts, getPost,            *)
(*     getAllPostSlugs) over a read-only content directory,                *)
(*   - the blog page of app/blog/[slug]/page.tsx,                          *)
(*   - the mermaid placeholder pipeline (processMermaidBlocks in getPost,  *)
(*     processNode in BlogContent, the decode in MermaidDiagram),          *)
(*   - the MermaidDiagram component's render effect.                       *)
(* gray-matter is called without options, so it keeps every input it was   *)
(* given in matter.cache, before parsing it, and answers a second call     *)
(* with the same input from there.                                         *)
(* JavaScript values are kept as tagged records so that `x || []` and      *)
(* `x !== false` are computed as JavaScript computes them.                 *)
(***************************************************************************)
EXTENDS Integers, Sequences, FiniteSets, TLC

VARIABLES
    dirExists,   \* fs.existsSync(postsDirectory)
    files,       \* the directory's entries, in fs.readdirSync order
    res,         \* the last call, when it was a loader call: what it returned
    page,        \* the last call, when it was a page request: what it produced
    matterCache, \* gray-matter's cache: the file texts matter() was given
                 \* and threw on (any other entry answers as a fresh parse)
    \* one document on its way from Markdown to the page
    markdown,          \* the Markdown body, parsed
    stage,             \* "markdown", "html" (getPost returned), "walked", or "off"
    mdast,             \* the Markdown tree after processMermaidBlocks
    contentHtml,       \* post.content
    processedContent,  \* the state of BlogContent
    diagrams,          \* per MermaidDiagram of processedContent: its effect
    \* the MermaidDiagram components of a page that is being viewed
    docDark,     \* document.documentElement has the class 'dark'
    comp,        \* per component: props, state, ref and what its container shows
    pending,     \* the mermaid.render promises that have not settled
    events,      \* mounts, unmounts, prop changes and theme changes so far
    \* getPost calls in flight
    calls,       \* per call: where it is, and its local variables
    \* a BlogContent component over its life
    blog,        \* its content prop, its state and its effect
    \* the reading-time estimate of one text
    reading,     \* the text and what the two estimators returned for it
    \* the browser build of the loader (fetch of /api/posts)
    client,      \* the promises of getAllPosts and getPost, and the network
    \* the single-page App: tabs, dark mode, the post view
    app,         \* state, localStorage, the document root, effects not yet run
    \* a ShareButtons component
    share        \* copied, the clipboard writes in flight, the timers started

loaderVars == <<dirExists, files, res, page, matterCache>>
pipelineVars == <<markdown, stage, mdast, contentHtml, processedContent, diagrams>>
viewVars == <<docDark, comp, pending, events>>
callVars == <<calls>>
contentVars == <<blog>>
uiVars == <<reading, client, app, share>>
vars == <<loaderVars, pipelineVars, viewVars, callVars, contentVars, uiVars>>

(***************************************************************************)
(* Bounds of the model.                                                    *)
(***************************************************************************)
MaxDate == 2        \* dates are 1..MaxDate: ISO date strings, in their order
MaxRichFiles == 1   \* files per directory when every front-matter field varies
MaxSortFiles == 4   \* files per directory when only date and published vary
MaxSiteFiles == 3   \* the same, for the requests of sitemap, feed and page
MaxSourceLen == 3   \* characters of a diagram's source, when it is the only block
MaxBlocks == 3      \* top-level blocks of a Markdown body
MaxDocBlocks == 2   \* top-level blocks of a document without diagrams
MaxCommits == 3     \* renders of a BlogContent with new content, and with the same
MaxEvents == 3      \* mounts, unmounts, prop changes and theme changes of a view

(***************************************************************************)
(* JavaScript values: undefined, booleans, strings, arrays of strings.     *)
(***************************************************************************)
JsUndef == [t |-> "undefined", b |-> FALSE, s |-> "", l |-> <<>>]
JsBool(x) == [t |-> "boolean", b |-> x, s |-> "", l |-> <<>>]
JsStr(x) == [t |-> "string", b |-> FALSE, s |-> x, l |-> <<>>]
JsList(x) == [t |-> "object", b |-> FALSE, s |-> "", l |-> x]

JsNull == [t |-> "null", b |-> FALSE, s |-> "", l |-> <<>>]

\* ToBoolean: undefined, null, false and "" are falsy; every array is truthy.
Truthy(v) ==
    CASE v.t = "undefined" -> FALSE
      [] v.t = "null" -> FALSE
      [] v.t = "boolean" -> v.b
      [] v.t = "string" -> v.s # ""
      [] OTHER -> TRUE

\* a || b
JsOr(a, b) == IF Truthy(a) THEN a ELSE b

\* a !== false
NotStrictFalse(a) == ~(a.t = "boolean" /\ a.b = FALSE)

(***************************************************************************)
(* Text is a sequence of characters.  encodeURIComponent keeps the         *)
(* unreserved characters and writes every other one as %XX;                *)
(* decodeURIComponent reads %XX back and throws URIError when a '%' is not *)
(* followed by two hex digits.  Of the hex digits the model has 2 and 5.   *)
(***************************************************************************)
Chars == {"g", "%", "2", "5", "\""}
HexDigits == {"2", "5"}

encodeChar(c) ==
    CASE c = "%" -> <<"%", "2", "5">>
      [] c = "\"" -> <<"%", "2", "2">>
      [] OTHER -> <<c>>

RECURSIVE encodeURIComponent(_)
encodeURIComponent(str) ==
    IF str = <<>> THEN <<>>
    ELSE encodeChar(Head(str)) \o encodeURIComponent(Tail(str))

\* the character of the byte 0xhl
charOfHex(h, l) ==
    CASE h = "2" /\ l = "2" -> "\""
      [] h = "2" /\ l = "5" -> "%"
      [] h = "5" /\ l = "2" -> "R"
      [] OTHER -> "U"

Decoded(val) == [ok |-> TRUE, val |-> val]
URIError == [ok |-> FALSE, val |-> <<>>]

RECURSIVE decodeURIComponent(_)
decodeURIComponent(str) ==
    IF str = <<>> THEN Decoded(<<>>)
    ELSE IF Head(str) # "%"
    THEN LET rest == decodeURIComponent(Tail(str))
         IN  IF rest.ok THEN Decoded(<<Head(str)>> \o rest.val) ELSE URIError
    ELSE IF Len(str) < 3 \/ str[2] \notin HexDigits \/ str[3] \notin HexDigits
    THEN URIError
    ELSE LET rest == decodeURIComponent(SubSeq(str, 4, Len(str)))
         IN  IF rest.ok
             THEN Decoded(<<charOfHex(str[2], str[3])>> \o rest.val)
             ELSE URIError

(***************************************************************************)
(* Markdown trees (mdast) and the HTML getPost makes of them.  The HTML    *)
(* string is kept as its nodes; a raw node is the text of an html node of  *)
(* the Markdown tree, which only the browser parses.                       *)
(***************************************************************************)
MdNode(type, lang, value, children) ==
    [type |-> type, lang |-> lang, value |-> value, children |-> children]

MdText(value) == MdNode("text", "", value, <<>>)
MdCode(lang, value) == MdNode("code", lang, value, <<>>)
MdParent(type, children) == MdNode(type, "", <<>>, children)

NoData == [has |-> FALSE, val |-> <<>>]
DataOf(val) == [has |-> TRUE, val |-> val]

HtmlNode(kind, tag, classes, data, text, children) ==
    [kind |-> kind, tag |-> tag, classes |-> classes, data |-> data,
     text |-> text, children |-> children]

HtmlText(text) == HtmlNode("text", "", {}, NoData, text, <<>>)
HtmlRaw(text) == HtmlNode("raw", "", {}, NoData, text, <<>>)
HtmlElement(tag, classes, children) ==
    HtmlNode("element", tag, classes, NoData, <<>>, children)

Newline == HtmlText(<<"\n">>)

\* the two ends of the placeholder's markup, around the encoded source
PlaceholderOpen == "<div class=\"mermaid-placeholder\" data-mermaid=\""
PlaceholderClose == "\"></div>"

\* `<div class="mermaid-placeholder" data-mermaid="${encodeURIComponent(value)}"></div>`
placeholder(value) ==
    <<PlaceholderOpen>> \o encodeURIComponent(value) \o <<PlaceholderClose>>

\* what the visitor does to one node
replaceMermaid(node) ==
    IF node.type = "code" /\ node.lang = "mermaid"
    THEN [node EXCEPT !.type = "html", !.value = placeholder(node.value)]
    ELSE node

\* a plugin that looks at the children of the root only
processMermaidBlocksShallow(tree) ==
    [tree EXCEPT !.children =
        [i \in 1..Len(tree.children) |-> replaceMermaid(tree.children[i])]]

RECURSIVE visit(_)
\* visit(tree, 'code', visitor): every node of the tree, at any depth
visit(node) ==
    LET seen == replaceMermaid(node)
    IN  [seen EXCEPT !.children =
            [i \in 1..Len(seen.children) |-> visit(seen.children[i])]]

processMermaidBlocks(tree) == visit(tree)

RECURSIVE Interleave(_)
\* the line breaks the HTML has between block elements
Interleave(nodes) ==
    IF Len(nodes) < 2 THEN nodes
    ELSE <<Head(nodes), Newline>> \o Interleave(Tail(nodes))

Wrap(nodes, loose) ==
    IF loose /\ nodes # <<>>
    THEN <<Newline>> \o Interleave(nodes) \o <<Newline>>
    ELSE Interleave(nodes)

RECURSIVE ItemChildren(_, _)
\* the children of the <li> of a tight list item: a paragraph is unwrapped,
\* anything else stands on a line of its own
ItemChildren(kids, index) ==
    IF index > Len(kids) THEN <<>>
    ELSE LET child == kids[index]
             isP == child.kind = "element" /\ child.tag = "p"
             lead == IF index # 1 \/ ~isP THEN <<Newline>> ELSE <<>>
             tail == IF index = Len(kids) /\ ~isP THEN <<Newline>> ELSE <<>>
         IN  lead \o (IF isP THEN child.children ELSE <<child>>) \o tail
             \o ItemChildren(kids, index + 1)

RECURSIVE toHtml(_)
\* remark-html, or remark-rehype and rehype-stringify, with raw HTML let through
toHtml(node) ==
    LET kids == [i \in 1..Len(node.children) |-> toHtml(node.children[i])]
    IN  CASE node.type = "text" -> HtmlText(node.value)
          [] node.type = "list" -> HtmlElement("ul", {}, Wrap(kids, TRUE))
          [] node.type = "listItem" ->
                HtmlElement("li", {}, ItemChildren(kids, 1))
          [] node.type = "html" -> HtmlRaw(node.value)
          [] node.type = "heading" -> HtmlElement("h1", {}, kids)
          [] node.type = "paragraph" -> HtmlElement("p", {}, kids)
          [] node.type = "blockquote" ->
                HtmlElement("blockquote", {}, Wrap(kids, TRUE))
          [] node.type = "code" ->
                HtmlElement("pre", {}, <<
                    HtmlElement("code",
                        IF node.lang = "" THEN {} ELSE {"language-" \o node.lang},
                        <<HtmlText(node.value \o <<"\n">>)>>) >>)
          [] OTHER -> HtmlElement("div", {}, Wrap(kids, FALSE))

\* the content getPost returns for a Markdown body: [tree, html]
remarkProcess(body) ==
    LET tree == processMermaidBlocks(body)
    IN  [tree |-> tree, html |-> toHtml(tree).children]

(***************************************************************************)
(* components/BlogContent.tsx: the browser parses the content, and         *)
(* processNode walks the nodes.                                            *)
(***************************************************************************)
RECURSIVE attributeValue(_)
\* an attribute value in double quotes ends at the first double quote
attributeValue(tokens) ==
    IF tokens = <<>> \/ Head(tokens) \in {"\"", PlaceholderClose} THEN <<>>
    ELSE <<Head(tokens)>> \o attributeValue(Tail(tokens))

RECURSIVE innerHTML(_)
\* tempDiv.innerHTML = content: the raw markup becomes elements
innerHTML(node) ==
    IF node.kind = "raw"
    THEN IF node.text # <<>> /\ Head(node.text) = PlaceholderOpen
         THEN HtmlNode("element", "div", {"mermaid-placeholder"},
                       DataOf(attributeValue(Tail(node.text))), <<>>, <<>>)
         ELSE HtmlText(node.text)
    ELSE [node EXCEPT !.children =
            [i \in 1..Len(node.children) |-> innerHTML(node.children[i])]]

ReactNode(kind, tag, text, diagram, children) ==
    [kind |-> kind, tag |-> tag, text |-> text, diagram |-> diagram,
     children |-> children]

ReactNull == ReactNode("null", "", <<>>, <<>>, <<>>)
\* stands for a URIError thrown inside the walk
ReactThrow == ReactNode("URIError", "", <<>>, <<>>, <<>>)
ReactText(text) == ReactNode("text", "", text, <<>>, <<>>)
MermaidDiagramElement(diagram) ==
    ReactNode("MermaidDiagram", "", <<>>, diagram, <<>>)

SelfClosing == {"br", "hr", "img", "input", "meta", "link"}

RECURSIVE processNode(_)
\* a walk that gives up an element when it has no children left
processNodeDroppingChildless(node) ==
    IF node.kind = "text" THEN ReactText(node.text)
    ELSE IF node.kind # "element" THEN ReactNull
    ELSE LET all == [i \in 1..Len(node.children) |->
                        processNode(node.children[i])]
             children == SelectSeq(all,
                            LAMBDA c : c # ReactNull /\ c # ReactText(<<>>))
         IN  IF children = <<>> THEN ReactNull
             ELSE ReactNode("element", node.tag, <<>>, <<>>, children)

processNode(node) ==
    IF node.kind = "text" THEN ReactText(node.text)
    ELSE IF node.kind # "element" THEN ReactNull
    ELSE IF "mermaid-placeholder" \in node.classes
    THEN \* getAttribute gives null or a string; '' is falsy
         IF node.data.has /\ node.data.val # <<>>
         THEN LET diagram == decodeURIComponent(node.data.val)
              IN  IF diagram.ok THEN MermaidDiagramElement(diagram.val)
                  ELSE ReactThrow
         ELSE ReactNull
    ELSE LET all == [i \in 1..Len(node.children) |->
                        processNode(node.children[i])]
             children == SelectSeq(all,
                            LAMBDA c : c # ReactNull /\ c # ReactText(<<>>))
         IN  IF \E i \in 1..Len(all) : all[i] = ReactThrow THEN ReactThrow
             ELSE IF node.tag \in SelfClosing
             THEN ReactNode("element", node.tag, <<>>, <<>>, <<>>)
             ELSE ReactNode("element", node.tag, <<>>, <<>>, children)

\* an effect that adds the nodes of the walk to those of the state
BlogContentEffectAppending(content, before) ==
    LET childNodes == [i \in 1..Len(content) |-> innerHTML(content[i])]
        all == [i \in 1..Len(childNodes) |-> processNode(childNodes[i])]
    IN  before \o SelectSeq(all, LAMBDA c : c # ReactNull /\ c # ReactText(<<>>))

\* the effect of BlogContent: parse, walk, keep what is truthy, and
\* setProcessedContent unless the walk threw
BlogContentEffect(content, before) ==
    LET childNodes == [i \in 1..Len(content) |-> innerHTML(content[i])]
        all == [i \in 1..Len(childNodes) |-> processNode(childNodes[i])]
    IN  IF \E i \in 1..Len(all) : all[i] = ReactThrow THEN before
        ELSE SelectSeq(all, LAMBDA c : c # ReactNull /\ c # ReactText(<<>>))

(***************************************************************************)
(* components/MermaidDiagram: the render effect decodes the diagram prop   *)
(* and hands the result to mermaid.render.                                 *)
(***************************************************************************)
ErrorProcessing == "Error processing diagram."
ErrorRendering == "Error rendering diagram. Please check the syntax."

\* what one run of the effect does before any promise settles
RenderEffect(diagram) ==
    IF diagram = <<>> THEN [called |-> FALSE, graph |-> <<>>, error |-> ""]
    ELSE LET graphDefinition == decodeURIComponent(diagram)
         IN  IF graphDefinition.ok
             THEN [called |-> TRUE, graph |-> graphDefinition.val, error |-> ""]
             ELSE [called |-> FALSE, graph |-> <<>>, error |-> ErrorProcessing]

(***************************************************************************)
(* The content directory.  A directory entry is a name, split at its last  *)
(* suffix, and what gray-matter makes of the file: it throws on malformed  *)
(* YAML, and otherwise gives the front-matter data and the body.  A date   *)
(* that is not given (undefined) is the date 0.                            *)
(***************************************************************************)
Stems == <<"p1", "p2", "p3", "p4", "p5", "p6">>
Exts == {".md", ".txt"}
Dates == 1..MaxDate
Titles == {JsStr("X"), JsStr("Y")}
TagValues == {JsUndef, JsList(<<>>), JsList(<<"t1", "t2">>)}
PublishedValues == {JsUndef, JsBool(TRUE), JsBool(FALSE), JsStr("false")}
SlugValues == {JsUndef, JsStr("custom")}

NoDate == 0

FrontMatter(title, date, tags, published, slug) ==
    [title |-> title, description |-> JsStr("D"), date |-> date,
     tags |-> tags, published |-> published, slug |-> slug]

DefaultData(date, published) ==
    FrontMatter(JsStr("X"), date, JsList(<<"t1">>), published, JsUndef)

\* what a file with malformed YAML gives: nothing
EmptyData ==
    [title |-> JsUndef, description |-> JsUndef, date |-> NoDate,
     tags |-> JsUndef, published |-> JsUndef, slug |-> JsUndef]

\* the body of every file of the modelled directories: "# Hi" and a diagram
SampleBody ==
    MdParent("root", << MdParent("heading", <<MdText(<<"Hi">>)>>),
                        MdCode("mermaid", <<"g">>) >>)

File(ext, malformed, data) ==
    [name |-> [stem |-> "", ext |-> ext], malformed |-> malformed,
     data |-> data, body |-> SampleBody]

\* every field varies; one malformed file stands for all of them, and one
\* entry for those that are not Markdown
RichFiles ==
    { File(".md", FALSE, FrontMatter(ti, 1, tg, pb, sl)) :
        ti \in Titles, tg \in TagValues,
        pb \in PublishedValues, sl \in SlugValues }
    \cup { File(ext, FALSE, DefaultData(1, JsUndef)) : ext \in Exts \ {".md"} }
    \cup { File(".md", TRUE, EmptyData) }

\* only the date and the published flag vary
SortFiles ==
    { File(".md", FALSE, DefaultData(d, JsBool(pb))) :
        d \in Dates, pb \in BOOLEAN }

\* the entry at place i of the enumeration is named after the place
Named(i, file) == [file EXCEPT !.name.stem = Stems[i]]

Directories(n, choices) ==
    { [i \in 1..n |-> Named(i, c[i])] : c \in [1..n -> choices] }

\* fileName.endsWith('.md')
endsWithMd(name) == name.ext = ".md"

\* the file name, suffix and all
slugWithSuffix(name) == name.stem \o name.ext

\* fileName.replace(/\.md$/, '')
slugOf(name) == name.stem

\* a path that leaves the suffix out
IsPathOfAnySuffix(slug, name) == name.stem = slug

\* path.join(postsDirectory, `${slug}.md`) names this entry
IsPathOf(slug, name) == name.stem = slug /\ name.ext = ".md"

(***************************************************************************)
(* Array.prototype.sort as V8 runs it on fewer than 64 elements: one run   *)
(* is counted (and reversed when descending), the rest is inserted by      *)
(* binary insertion.  The comparator is the one of getAllPosts.            *)
(***************************************************************************)
\* a.date < b.date: false when a date is undefined
DateLess(a, b) == a # NoDate /\ b # NoDate /\ a < b

comparatorAscending(a, b) == IF DateLess(b.date, a.date) THEN 1 ELSE -1

comparator(a, b) == IF DateLess(a.date, b.date) THEN 1 ELSE -1

Reverse(s) == [i \in 1..Len(s) |-> s[Len(s) + 1 - i]]

RECURSIVE RunLength(_, _, _)
\* the run covers arr[1..idx-1]; extend it while the order keeps its sense
RunLength(arr, isDescending, idx) ==
    IF idx > Len(arr) THEN idx - 1
    ELSE LET order == comparator(arr[idx], arr[idx - 1])
         IN  IF (isDescending /\ order >= 0) \/ (~isDescending /\ order < 0)
             THEN idx - 1
             ELSE RunLength(arr, isDescending, idx + 1)

CountAndMakeRun(arr) ==
    IF Len(arr) < 2 THEN [arr |-> arr, run |-> Len(arr)]
    ELSE LET isDescending == comparator(arr[2], arr[1]) < 0
             n == RunLength(arr, isDescending, 3)
         IN  [arr |-> IF isDescending
                      THEN Reverse(SubSeq(arr, 1, n)) \o SubSeq(arr, n + 1, Len(arr))
                      ELSE arr,
              run |-> n]

RECURSIVE BinarySearch(_, _, _, _)
\* where the pivot goes in arr[left..right-1]
BinarySearch(arr, pivot, left, right) ==
    IF left >= right THEN left
    ELSE LET mid == left + ((right - left) \div 2)
         IN  IF comparator(pivot, arr[mid]) < 0
             THEN BinarySearch(arr, pivot, left, mid)
             ELSE BinarySearch(arr, pivot, mid + 1, right)

RECURSIVE BinaryInsertionSort(_, _)
\* arr[1..start-1] is sorted; insert arr[start], arr[start+1], ...
BinaryInsertionSort(arr, start) ==
    IF start > Len(arr) THEN arr
    ELSE LET pivot == arr[start]
             left == BinarySearch(arr, pivot, 1, start)
             moved == SubSeq(arr, 1, left - 1) \o <<pivot>>
                      \o SubSeq(arr, left, start - 1)
                      \o SubSeq(arr, start + 1, Len(arr))
         IN  BinaryInsertionSort(moved, start + 1)

ArraySort(arr) ==
    IF Len(arr) < 2 THEN arr
    ELSE LET made == CountAndMakeRun(arr)
         IN  BinaryInsertionSort(made.arr, made.run + 1)

(***************************************************************************)
(* lib/blog.ts                                                             *)
(***************************************************************************)
\* !fs.existsSync(postsDirectory), the guard each function starts with
directoryNeverMissing(exists) == FALSE

directoryMissing(exists) == ~exists

\* tags: []
tagsAlwaysEmpty(tags) == JsList(<<>>)

\* matterResult.data.tags || []
tagsOrEmpty(tags) == JsOr(tags, JsList(<<>>))

\* published: anything truthy
isTruthyPublished(published) == Truthy(published)

\* published only when the front matter says true
isPublishedOnlyIfTrue(published) == published = JsBool(TRUE)

\* matterResult.data.published !== false
isPublished(published) == NotStrictFalse(published)

\* fileContents: the text of the file, the key of matter.cache
ContentOf(file) ==
    [malformed |-> file.malformed, data |-> file.data, body |-> file.body]

\* the file as it is in matter.cache when parsing its YAML threw: no data,
\* and the whole text still as its content
Unparsed ==
    [data |-> EmptyData,
     content |-> MdParent("root", <<MdParent("paragraph", <<MdText(<<"---">>)>>)>>)]

\* matter(fileContents) throws: malformed YAML, parsed for the first time
matterThrows(file) == file.malformed /\ ContentOf(file) \notin matterCache

\* matter(fileContents), when it returns
matter(file) ==
    IF file.malformed THEN Unparsed
    ELSE [data |-> file.data, content |-> file.body]

\* the record getAllPosts builds from one file
PostMetadata(file) ==
    LET matterResult == matter(file)
    IN  [slug |-> slugOf(file.name),
         title |-> matterResult.data.title,
         description |-> matterResult.data.description,
         date |-> matterResult.data.date,
         tags |-> tagsOrEmpty(matterResult.data.tags),
         published |-> isPublished(matterResult.data.published),
         excerpt |-> matterResult.data.description]

Returned(value, reads) == [threw |-> FALSE, value |-> value, reads |-> reads]
Thrown(reads) == [threw |-> TRUE, value |-> <<>>, reads |-> reads]

\* the .md entries, in enumeration order
MarkdownFiles(fs) == SelectSeq(fs, LAMBDA f : endsWithMd(f.name))

\* the first entry gray-matter throws on, 0 when there is none
FirstMalformed(fs) ==
    IF \E i \in 1..Len(fs) : matterThrows(fs[i])
    THEN CHOOSE i \in 1..Len(fs) :
            matterThrows(fs[i]) /\ \A j \in 1..(i - 1) : ~matterThrows(fs[j])
    ELSE 0

getAllPosts(exists, fs) ==
    IF directoryMissing(exists) THEN Returned(<<>>, 0)
    ELSE IF ~exists THEN Thrown(0)   \* fs.readdirSync: ENOENT
    ELSE LET md == MarkdownFiles(fs)
             bad == FirstMalformed(md)
             allPostsData == [i \in 1..Len(md) |-> PostMetadata(md[i])]
         IN  IF bad > 0 THEN Thrown(bad)
             ELSE Returned(
                    ArraySort(SelectSeq(allPostsData, LAMBDA p : p.published)),
                    Len(md))

getAllPostSlugs(exists, fs) ==
    IF directoryMissing(exists) THEN Returned(<<>>, 0)
    ELSE IF ~exists THEN Thrown(0)   \* fs.readdirSync: ENOENT
    ELSE LET md == MarkdownFiles(fs)
         IN  Returned([i \in 1..Len(md) |->
                         [params |-> [slug |-> slugOf(md[i].name)]]], 0)

\* the texts getAllPosts gives to matter(), up to the one that throws, that
\* stay in the cache unparsed
getAllPostsParses(exists, fs) ==
    IF ~exists THEN {}
    ELSE LET md == MarkdownFiles(fs)
             bad == FirstMalformed(md)
             last == IF bad > 0 THEN bad ELSE Len(md)
         IN  { ContentOf(md[i]) : i \in { k \in 1..last : md[k].malformed } }

Post(slug, file) ==
    LET matterResult == matter(file)
    IN  [slug |-> slug,
         title |-> matterResult.data.title,
         description |-> matterResult.data.description,
         date |-> matterResult.data.date,
         tags |-> tagsOrEmpty(matterResult.data.tags),
         published |-> isPublished(matterResult.data.published),
         content |-> remarkProcess(matterResult.content).html,
         excerpt |-> matterResult.data.description]

\* fs.existsSync(fullPath)
PathExists(fs, slug) == \E i \in 1..Len(fs) : IsPathOf(slug, fs[i].name)

\* a getPost that treats an unpublished post as missing
getPostPublishedOnly(exists, fs, slug) ==
    IF directoryMissing(exists) THEN Returned(<<>>, 0)
    ELSE IF ~PathExists(fs, slug) THEN Returned(<<>>, 0)
    ELSE LET file == fs[CHOOSE i \in 1..Len(fs) : IsPathOf(slug, fs[i].name)]
         IN  IF matterThrows(file) THEN Thrown(1)
             ELSE IF ~Post(slug, file).published THEN Returned(<<>>, 1)
             ELSE Returned(<<Post(slug, file)>>, 1)

getPost(exists, fs, slug) ==
    IF directoryMissing(exists) THEN Returned(<<>>, 0)
    ELSE IF ~PathExists(fs, slug) THEN Returned(<<>>, 0)
    ELSE LET file == fs[CHOOSE i \in 1..Len(fs) : IsPathOf(slug, fs[i].name)]
         IN  IF matterThrows(file) THEN Thrown(1)
             ELSE Returned(<<Post(slug, file)>>, 1)

\* the text getPost gives to matter(), when it stays in the cache unparsed
getPostParses(exists, fs, slug) ==
    IF ~exists \/ ~PathExists(fs, slug) THEN {}
    ELSE LET file == fs[CHOOSE i \in 1..Len(fs) : IsPathOf(slug, fs[i].name)]
         IN  IF file.malformed THEN { ContentOf(file) } ELSE {}

(***************************************************************************)
(* app/blog/[slug]/page.tsx                                                *)
(***************************************************************************)
PageResult(op, slug, status, title, content) ==
    [op |-> op, slug |-> slug, status |-> status, title |-> title,
     content |-> content]

NoPage == PageResult("none", "", "none", JsUndef, <<>>)

generateMetadata(exists, fs, slug) ==
    LET post == getPost(exists, fs, slug)
    IN  IF post.threw
        THEN PageResult("generateMetadata", slug, "error", JsUndef, <<>>)
        ELSE IF post.value = <<>>
        THEN PageResult("generateMetadata", slug, "metadata",
                        JsStr("Post Not Found"), <<>>)
        ELSE PageResult("generateMetadata", slug, "metadata",
                        post.value[1].title, <<>>)

BlogPostPage(exists, fs, slug) ==
    LET post == getPost(exists, fs, slug)
    IN  IF post.threw
        THEN PageResult("BlogPostPage", slug, "error", JsUndef, <<>>)
        ELSE IF post.value = <<>>
        THEN PageResult("BlogPostPage", slug, "notFound", JsUndef, <<>>)
        ELSE PageResult("BlogPostPage", slug, "rendered", post.value[1].title,
                        post.value[1].content)

(***************************************************************************)
(* app/sitemap.ts and app/feed.xml/route.ts                                *)
(***************************************************************************)
\* siteConfig.site.url
SiteUrl == "https://kreitzer.dev"

\* new Date(): the time of the request, later than the dates of the posts
Now == MaxDate + 1

\* `${value}` of a string or of undefined
TemplateString(v) == IF v.t = "string" THEN v.s ELSE "undefined"

\* `${siteConfig.site.url}/${post.slug}`: a post URL that leaves out /blog
postUrlAtRoot(slug) == SiteUrl \o "/" \o slug

\* `${siteConfig.site.url}/blog/${post.slug}`
postUrl(slug) == SiteUrl \o "/blog/" \o slug

\* priorities are kept in tenths: 10 is 1, 8 is 0.8
SitemapEntry(url, lastModified, changeFrequency, priority) ==
    [url |-> url, lastModified |-> lastModified,
     changeFrequency |-> changeFrequency, priority |-> priority]

sitemap(exists, fs) ==
    LET posts == getAllPosts(exists, fs)
        blogPosts == [i \in 1..Len(posts.value) |->
                        SitemapEntry(postUrl(posts.value[i].slug),
                                     posts.value[i].date, "weekly", 8)]
    IN  IF posts.threw THEN Thrown(posts.reads)
        ELSE Returned(<<SitemapEntry(SiteUrl, Now, "daily", 10)>> \o blogPosts,
                      posts.reads)

\* the page's URL with a trailing slash
pageUrlTrailingSlash(slug) == SiteUrl \o "/blog/" \o slug \o "/"

\* const url = `${siteConfig.site.url}/blog/${slug}` of the blog page
pageUrl(slug) == SiteUrl \o "/blog/" \o slug

\* the blog page that carries its URLs: generateMetadata's canonical and
\* Open Graph url and the url of the page's JSON-LD
BlogPostPageWithUrls(exists, fs, slug) ==
    LET post == getPost(exists, fs, slug)
        url == pageUrl(slug)
        none == [canonical |-> "", openGraph |-> "", jsonLd |-> "", mainEntity |-> ""]
    IN  IF post.threw
        THEN PageResult("BlogPostPageWithUrls", slug, "error", JsUndef, <<>>) @@ none
        ELSE IF post.value = <<>>
        THEN PageResult("BlogPostPageWithUrls", slug, "notFound",
                        JsStr("Post Not Found"), <<>>) @@ none
        ELSE PageResult("BlogPostPageWithUrls", slug, "rendered",
                        post.value[1].title, post.value[1].content)
             @@ [canonical |-> url, openGraph |-> url, jsonLd |-> url,
                 mainEntity |-> url]

\* a feed that gives every item the link of the site
feedLinkIsSite(slug) == SiteUrl

\* <link> and <guid> of an item
feedLink(slug) == postUrl(slug)

\* one <item> of the feed
FeedItem(post) ==
    [title |-> TemplateString(post.title),
     link |-> feedLink(post.slug),
     guid |-> feedLink(post.slug),
     description |-> TemplateString(post.description),
     pubDate |-> post.date,
     category |-> post.tags.l]

\* GET of /feed.xml: the items of the channel
GET(exists, fs) ==
    LET posts == getAllPosts(exists, fs)
    IN  IF posts.threw THEN Thrown(posts.reads)
        ELSE Returned([i \in 1..Len(posts.value) |-> FeedItem(posts.value[i])],
                      posts.reads)

(***************************************************************************)
(* The content loader as a state machine: a content directory that never   *)
(* changes, and the calls made on it.                                      *)
(***************************************************************************)
PipelineOff ==
    /\ markdown = MdParent("root", <<>>)
    /\ stage = "off"
    /\ mdast = MdParent("root", <<>>)
    /\ contentHtml = <<>>
    /\ processedContent = <<>>
    /\ diagrams = <<>>

(***************************************************************************)
(* The MermaidDiagram components of a viewed page.  mermaid.render         *)
(* resolves for a graph definition that parses and rejects for one that    *)
(* does not; of the graphs of the model, those that start with "g" parse.  *)
(***************************************************************************)
Instances == {1, 2}
DiagramValues == {<<"g">>, <<"g", "2">>, <<"5">>, <<"%">>}

ValidGraph(graph) == graph # <<>> /\ Head(graph) = "g"

Deps(diagram, isDark) == [diagram |-> diagram, isDark |-> isDark]

Shown(kind, graph, dark, message) ==
    [kind |-> kind, graph |-> graph, dark |-> dark, message |-> message]

EmptyContainer == Shown("empty", <<>>, FALSE, "")
SvgOf(graph, dark) == Shown("svg", graph, dark, "")
ErrorBox(message) == Shown("error", <<>>, FALSE, message)

Unmounted ==
    [mounted |-> FALSE, gen |-> 0, diagram |-> <<>>, isDark |-> FALSE,
     deps |-> Deps(<<>>, FALSE), container |-> EmptyContainer, calls |-> 0,
     failed |-> {}]

\* no getPost call in flight
CallIds == {1, 2}

Idle ==
    [pc |-> "idle", slug |-> "", data |-> EmptyData,
     content |-> MdParent("root", <<>>), tree |-> MdParent("root", <<>>),
     result |-> Returned(<<>>, 0)]

\* no BlogContent mounted
NotMounted ==
    [mounted |-> FALSE, content |-> <<>>, processedContent |-> <<>>,
     effectPending |-> FALSE, walks |-> 0, commits |-> 0, renders |-> 0]

CallsOff == calls = [c \in CallIds |-> Idle] /\ blog = NotMounted

\* No text is being estimated, no browser loader, no App and no ShareButtons.
UiOff == reading = "off" /\ client = "off" /\ app = "off" /\ share = "off"

ViewOff ==
    /\ docDark = FALSE
    /\ comp = [k \in Instances |-> Unmounted]
    /\ pending = {}
    /\ events = 0

\* one run of the render effect of a component, with the isDark of its render
renderEffect(c) ==
    LET effect == RenderEffect(c.diagram)
    IN  [c EXCEPT !.deps = Deps(c.diagram, c.isDark),
                  !.calls = IF effect.called THEN @ + 1 ELSE @,
                  !.container = IF effect.error # "" THEN ErrorBox(effect.error)
                                ELSE @,
                  !.failed = IF effect.error # "" THEN @ \cup {c.diagram} ELSE @]

\* the promises the run of the effect left behind
renderCalls(k, c) ==
    LET effect == RenderEffect(c.diagram)
    IN  IF effect.called
        THEN {[inst |-> k, gen |-> c.gen, n |-> c.calls + 1,
               graph |-> effect.graph, dark |-> c.isDark]}
        ELSE {}

\* .then: the SVG goes into the container
resolved(c, p) == [c EXCEPT !.container = SvgOf(p.graph, p.dark)]

\* a .catch that tries the render once more
rejectedRetry(c, p) ==
    [c EXCEPT !.container = ErrorBox(ErrorRendering),
              !.failed = @ \cup {c.diagram},
              !.calls = @ + 1]

\* .catch: the error message goes into the container
rejected(c, p) ==
    [c EXCEPT !.container = ErrorBox(ErrorRendering),
              !.failed = @ \cup {c.diagram}]

SlugArgs == {Stems[1], Stems[2], "missing"}

Result(op, arg, ret) ==
    [op |-> op, arg |-> arg, threw |-> ret.threw, value |-> ret.value,
     reads |-> ret.reads]

NoResult == Result("none", "", Returned(<<>>, 0))

LoaderInit ==
    /\ dirExists \in BOOLEAN
    /\ files \in IF dirExists
                 THEN UNION { Directories(n, RichFiles) : n \in 0..MaxRichFiles }
                      \cup UNION { Directories(n, SortFiles) : n \in 0..MaxSortFiles }
                 ELSE {<<>>}
    /\ res = NoResult
    /\ page = NoPage
    /\ matterCache = {}

CallGetAllPosts ==
    /\ res' = Result("getAllPosts", "", getAllPosts(dirExists, files))
    /\ page' = NoPage
    /\ matterCache' = matterCache \cup getAllPostsParses(dirExists, files)
    /\ UNCHANGED <<dirExists, files, pipelineVars, viewVars, callVars, contentVars, uiVars>>

CallGetAllPostSlugs ==
    /\ res' = Result("getAllPostSlugs", "", getAllPostSlugs(dirExists, files))
    /\ page' = NoPage
    /\ UNCHANGED matterCache
    /\ UNCHANGED <<dirExists, files, pipelineVars, viewVars, callVars, contentVars, uiVars>>

CallGetPost ==
    \E slug \in SlugArgs :
        /\ res' = Result("getPost", slug, getPost(dirExists, files, slug))
        /\ page' = NoPage
        /\ matterCache' = matterCache \cup getPostParses(dirExists, files, slug)
        /\ UNCHANGED <<dirExists, files, pipelineVars, viewVars, callVars, contentVars, uiVars>>

CallSitemap ==
    /\ res' = Result("sitemap", "", sitemap(dirExists, files))
    /\ page' = NoPage
    /\ matterCache' = matterCache \cup getAllPostsParses(dirExists, files)
    /\ UNCHANGED <<dirExists, files, pipelineVars, viewVars, callVars, contentVars, uiVars>>

CallFeed ==
    /\ res' = Result("feed", "", GET(dirExists, files))
    /\ page' = NoPage
    /\ matterCache' = matterCache \cup getAllPostsParses(dirExists, files)
    /\ UNCHANGED <<dirExists, files, pipelineVars, viewVars, callVars, contentVars, uiVars>>

RequestMetadata ==
    \E slug \in SlugArgs :
        /\ page' = generateMetadata(dirExists, files, slug)
        /\ res' = NoResult
        /\ matterCache' = matterCache \cup getPostParses(dirExists, files, slug)
        /\ UNCHANGED <<dirExists, files, pipelineVars, viewVars, callVars, contentVars, uiVars>>

RequestPage ==
    \E slug \in SlugArgs :
        /\ page' = BlogPostPage(dirExists, files, slug)
        /\ res' = NoResult
        /\ matterCache' = matterCache \cup getPostParses(dirExists, files, slug)
        /\ UNCHANGED <<dirExists, files, pipelineVars, viewVars, callVars, contentVars, uiVars>>

RequestPageWithUrls ==
    \E slug \in SlugArgs :
        /\ page' = BlogPostPageWithUrls(dirExists, files, slug)
        /\ res' = NoResult
        /\ matterCache' = matterCache \cup getPostParses(dirExists, files, slug)
        /\ UNCHANGED <<dirExists, files, pipelineVars, viewVars, callVars, contentVars, uiVars>>

LoaderNext ==
    \/ CallGetAllPosts
    \/ CallGetAllPostSlugs
    \/ CallGetPost
    \/ RequestMetadata
    \/ RequestPage

Init == LoaderInit /\ PipelineOff /\ ViewOff /\ CallsOff /\ UiOff

(***************************************************************************)
(* One document from Markdown to the page: getPost makes the HTML, the     *)
(* BlogContent effect walks it, and each MermaidDiagram it made runs its   *)
(* render effect.                                                          *)
(***************************************************************************)
Sources(n) == UNION { [1..k -> Chars] : k \in 0..n }
ShortSources == {<<>>, <<"g">>, <<"%">>}

Paragraph == MdParent("paragraph", <<MdText(<<"text">>)>>)
Heading == MdParent("heading", <<MdText(<<"Hi">>)>>)

Blocks ==
    { MdCode("mermaid", src) : src \in ShortSources }
    \cup { MdCode("js", <<"%">>), MdCode("", <<"g">>), Paragraph, Heading }
    \cup { MdParent("blockquote", <<b>>) :
              b \in {MdCode("mermaid", <<"g">>), MdCode("mermaid", <<>>),
                     MdCode("js", <<"g">>)} }

Bodies ==
    { MdParent("root", <<MdCode("mermaid", src)>>) : src \in Sources(MaxSourceLen) }
    \cup UNION { { MdParent("root", bs) : bs \in [1..n -> Blocks] } :
                   n \in 0..MaxBlocks }

LoaderOff ==
    /\ dirExists = FALSE
    /\ files = <<>>
    /\ res = NoResult
    /\ page = NoPage
    /\ matterCache = {}

RECURSIVE Flatten(_)
\* the nodes of a tree in document order
Flatten(node) ==
    LET RECURSIVE Over(_)
        Over(nodes) ==
            IF nodes = <<>> THEN <<>>
            ELSE Flatten(Head(nodes)) \o Over(Tail(nodes))
    IN  <<node>> \o Over(node.children)

\* the diagram props of the MermaidDiagram elements, in document order
DiagramProps(nodes) ==
    LET all == Flatten(ReactNode("element", "", <<>>, <<>>, nodes))
        found == SelectSeq(all, LAMBDA n : n.kind = "MermaidDiagram")
    IN  [i \in 1..Len(found) |-> found[i].diagram]

NotRun == [ran |-> FALSE, called |-> FALSE, graph |-> <<>>, error |-> ""]

PipelineInit ==
    /\ UiOff
    /\ markdown \in Bodies
    /\ stage = "markdown"
    /\ mdast = MdParent("root", <<>>)
    /\ contentHtml = <<>>
    /\ processedContent = <<>>
    /\ diagrams = <<>>
    /\ LoaderOff
    /\ ViewOff
    /\ CallsOff

\* getPost: the transform of the body
GetPostContent ==
    /\ stage = "markdown"
    /\ LET processed == remarkProcess(markdown)
       IN  /\ mdast' = processed.tree
           /\ contentHtml' = processed.html
    /\ stage' = "html"
    /\ UNCHANGED <<markdown, processedContent, diagrams, loaderVars, viewVars, callVars, contentVars, uiVars>>

\* BlogContent mounts with post.content and its effect runs
MountBlogContent ==
    /\ stage = "html"
    /\ processedContent' = BlogContentEffect(contentHtml, processedContent)
    /\ diagrams' = [i \in 1..Len(DiagramProps(processedContent')) |-> NotRun]
    /\ stage' = "walked"
    /\ UNCHANGED <<markdown, mdast, contentHtml, loaderVars, viewVars, callVars, contentVars, uiVars>>

\* a MermaidDiagram of the output mounts and its render effect runs
MountMermaidDiagram ==
    \E i \in 1..Len(diagrams) :
        /\ stage = "walked"
        /\ ~diagrams[i].ran
        /\ LET effect == RenderEffect(DiagramProps(processedContent)[i])
           IN  diagrams' = [diagrams EXCEPT ![i] =
                    [ran |-> TRUE, called |-> effect.called,
                     graph |-> effect.graph, error |-> effect.error]]
        /\ UNCHANGED <<markdown, stage, mdast, contentHtml, processedContent,
                       loaderVars, viewVars, callVars, contentVars, uiVars>>

PipelineNext ==
    \/ GetPostContent
    \/ MountBlogContent
    \/ MountMermaidDiagram

SpecPipeline == PipelineInit /\ [][PipelineNext]_vars

(***************************************************************************)
(* A document without math and diagrams on its way to the page: headings,  *)
(* paragraphs, code blocks, and lists that nest lists and code blocks.     *)
(***************************************************************************)
Item(children) == MdParent("listItem", children)

FlatList == MdParent("list", <<Item(<<Paragraph>>), Item(<<Paragraph>>)>>)

NestedList ==
    MdParent("list",
        << Item(<<Paragraph, MdParent("list", <<Item(<<Paragraph>>)>>)>>),
           Item(<<MdCode("js", <<"g">>)>>),
           Item(<<>>) >>)

DocBlocks ==
    { Heading, MdParent("heading", <<>>), Paragraph,
      MdCode("js", <<"g", " ", "%">>), MdCode("", <<>>), FlatList, NestedList }

Docs ==
    UNION { { MdParent("root", bs) : bs \in [1..n -> DocBlocks] } :
              n \in 0..MaxDocBlocks }

RoundTripInit ==
    /\ UiOff
    /\ markdown \in Docs
    /\ stage = "markdown"
    /\ mdast = MdParent("root", <<>>)
    /\ contentHtml = <<>>
    /\ processedContent = <<>>
    /\ diagrams = <<>>
    /\ LoaderOff
    /\ ViewOff
    /\ CallsOff

RoundTripNext ==
    \/ GetPostContent
    \/ MountBlogContent

SpecRoundTrip == RoundTripInit /\ [][RoundTripNext]_vars

(***************************************************************************)
(* getPost calls that run at the same time.  A call runs from its start to *)
(* its await without a break: the guards, the read, matter() and the       *)
(* parse; the plugins and the serialisation of its own tree follow, and    *)
(* between these steps the other call may run.                             *)
(***************************************************************************)
CallBodies ==
    { SampleBody,
      MdParent("root", <<MdCode("js", <<"g">>)>>),
      MdParent("root", <<MdCode("mermaid", <<"g", "2">>), Paragraph>>) }

CallFiles ==
    { [File(".md", FALSE, DefaultData(1, JsBool(pb))) EXCEPT !.body = b] :
        pb \in BOOLEAN, b \in CallBodies }
    \cup { File(".md", TRUE, EmptyData) }

ConcurrentInit ==
    /\ UiOff
    /\ dirExists = TRUE
    /\ files \in Directories(2, CallFiles)
    /\ res = NoResult
    /\ page = NoPage
    /\ matterCache = {}
    /\ calls = [c \in CallIds |-> Idle]
    /\ blog = NotMounted
    /\ PipelineOff
    /\ ViewOff

\* getPost(slug) up to its await
StartGetPost ==
    \E c \in CallIds, slug \in SlugArgs :
        /\ calls[c].pc = "idle"
        /\ LET early == getPost(dirExists, files, slug)
               file == files[CHOOSE i \in 1..Len(files) :
                                IsPathOf(slug, files[i].name)]
               matterResult == matter(file)
           IN  calls' = [calls EXCEPT ![c] =
                    IF early.threw \/ early.value = <<>>
                    THEN [Idle EXCEPT !.pc = "done", !.slug = slug,
                                      !.result = early]
                    ELSE [Idle EXCEPT !.pc = "parsed", !.slug = slug,
                                      !.data = matterResult.data,
                                      !.content = matterResult.content,
                                      !.tree = matterResult.content]]
        /\ matterCache' = matterCache \cup getPostParses(dirExists, files, slug)
        /\ UNCHANGED <<dirExists, files, res, page, pipelineVars, viewVars, contentVars, uiVars>>

\* the plugins run on the tree of the call
TransformTree ==
    \E c \in CallIds :
        /\ calls[c].pc = "parsed"
        /\ calls' = [calls EXCEPT ![c].pc = "transformed",
                                  ![c].tree = processMermaidBlocks(calls[c].tree)]
        /\ UNCHANGED <<loaderVars, pipelineVars, viewVars, contentVars, uiVars>>

\* the tree is serialised and getPost returns its record
ReturnPost ==
    \E c \in CallIds :
        /\ calls[c].pc = "transformed"
        /\ LET data == calls[c].data
               post == [slug |-> calls[c].slug,
                        title |-> data.title,
                        description |-> data.description,
                        date |-> data.date,
                        tags |-> tagsOrEmpty(data.tags),
                        published |-> isPublished(data.published),
                        content |-> toHtml(calls[c].tree).children,
                        excerpt |-> data.description]
           IN  calls' = [calls EXCEPT ![c].pc = "done",
                                     ![c].result = Returned(<<post>>, 1)]
        /\ UNCHANGED <<loaderVars, pipelineVars, viewVars, contentVars, uiVars>>

ConcurrentNext ==
    \/ StartGetPost
    \/ TransformTree
    \/ ReturnPost

SpecConcurrent == ConcurrentInit /\ [][ConcurrentNext]_vars

(***************************************************************************)
(* A BlogContent component over its life.  Its state starts empty; the     *)
(* effect runs after the commit of the mount and after every commit whose  *)
(* content prop differs from the one of the last run, and React runs a     *)
(* pending effect before it renders the component again.                   *)
(***************************************************************************)
ContentProps ==
    { remarkProcess(b).html :
        b \in { MdParent("root", <<>>), SampleBody,
                MdParent("root", <<MdCode("js", <<"g">>)>>),
                MdParent("root", <<Paragraph, MdCode("mermaid", <<"g", "2">>)>>),
                MdParent("root", <<FlatList>>) } }

BlogContentInit ==
    /\ UiOff
    /\ blog = NotMounted
    /\ calls = [c \in CallIds |-> Idle]
    /\ LoaderOff
    /\ PipelineOff
    /\ ViewOff

\* the first render: useState([]) and the effect scheduled
MountContent ==
    \E content \in ContentProps :
        /\ ~blog.mounted
        /\ blog.commits < MaxCommits
        /\ blog' = [mounted |-> TRUE, content |-> content,
                    processedContent |-> <<>>, effectPending |-> TRUE,
                    walks |-> blog.walks, commits |-> blog.commits + 1,
                    renders |-> blog.renders]
        /\ UNCHANGED <<loaderVars, pipelineVars, viewVars, callVars, uiVars>>

\* the effect: one walk over the content of the last render
RunContentEffect ==
    /\ blog.mounted
    /\ blog.effectPending
    /\ blog' = [blog EXCEPT
                    !.processedContent =
                        BlogContentEffect(blog.content, blog.processedContent),
                    !.effectPending = FALSE,
                    !.walks = @ + 1]
    /\ UNCHANGED <<loaderVars, pipelineVars, viewVars, callVars, uiVars>>

\* the parent renders the component with another content
ChangeContent ==
    \E content \in ContentProps :
        /\ blog.mounted
        /\ ~blog.effectPending
        /\ content # blog.content
        /\ blog.commits < MaxCommits
        /\ blog' = [blog EXCEPT !.content = content,
                                !.effectPending = TRUE,
                                !.commits = @ + 1]
        /\ UNCHANGED <<loaderVars, pipelineVars, viewVars, callVars, uiVars>>

\* the parent renders the component again with the same content: the
\* dependency [content] is unchanged and no effect is scheduled
RenderSameContent ==
    /\ blog.mounted
    /\ ~blog.effectPending
    /\ blog.renders < MaxCommits
    /\ blog' = [blog EXCEPT !.effectPending = FALSE, !.renders = @ + 1]
    /\ UNCHANGED <<loaderVars, pipelineVars, viewVars, callVars, uiVars>>

\* the component unmounts, its pending effect having run: its state is gone
UnmountContent ==
    /\ blog.mounted
    /\ ~blog.effectPending
    /\ blog' = [NotMounted EXCEPT !.walks = blog.walks,
                                  !.commits = blog.commits,
                                  !.renders = blog.renders]
    /\ UNCHANGED <<loaderVars, pipelineVars, viewVars, callVars, uiVars>>

BlogContentNext ==
    \/ MountContent
    \/ RunContentEffect
    \/ ChangeContent
    \/ RenderSameContent
    \/ UnmountContent

SpecBlogContent == BlogContentInit /\ [][BlogContentNext]_vars

(***************************************************************************)
(* The site over a content directory that never changes: requests for the  *)
(* sitemap, for the feed and for the blog page of a slug.                  *)
(***************************************************************************)
SiteInit ==
    /\ UiOff
    /\ dirExists \in BOOLEAN
    /\ files \in IF dirExists
                 THEN UNION { Directories(n, RichFiles) : n \in 0..MaxRichFiles }
                      \cup UNION { Directories(n, SortFiles) : n \in 0..MaxSiteFiles }
                 ELSE {<<>>}
    /\ res = NoResult
    /\ page = NoPage
    /\ matterCache = {}
    /\ PipelineOff
    /\ ViewOff
    /\ CallsOff

SiteNext ==
    \/ CallSitemap
    \/ CallFeed
    \/ RequestPageWithUrls

SpecSite == SiteInit /\ [][SiteNext]_vars

(***************************************************************************)
(* A viewed page: its MermaidDiagram components mount, get new props, see  *)
(* the theme change and unmount, while their render promises settle in any *)
(* order.                                                                  *)
(***************************************************************************)
ViewInit ==
    /\ UiOff
    /\ docDark \in BOOLEAN
    /\ comp = [k \in Instances |-> Unmounted]
    /\ pending = {}
    /\ events = 0
    /\ LoaderOff
    /\ PipelineOff
    /\ CallsOff

\* the component mounts: both effects run, the render effect with the
\* isDark of the first render, which is false
Mount ==
    \E k \in Instances, d \in DiagramValues :
        /\ ~comp[k].mounted
        /\ events < MaxEvents
        /\ LET first == [Unmounted EXCEPT !.mounted = TRUE,
                                          !.gen = comp[k].gen + 1,
                                          !.calls = comp[k].calls,
                                          !.diagram = d]
               ran == renderEffect(first)
           IN  /\ comp' = [comp EXCEPT ![k] = [ran EXCEPT !.isDark = docDark]]
               /\ pending' = pending \cup renderCalls(k, first)
        /\ events' = events + 1
        /\ UNCHANGED <<docDark, loaderVars, pipelineVars, callVars, contentVars, uiVars>>

\* a render whose diagram or isDark differs from the last run of the effect
Rerender ==
    \E k \in Instances :
        /\ comp[k].mounted
        /\ comp[k].deps # Deps(comp[k].diagram, comp[k].isDark)
        /\ comp' = [comp EXCEPT ![k] = renderEffect(comp[k])]
        /\ pending' = pending \cup renderCalls(k, comp[k])
        /\ UNCHANGED <<docDark, events, loaderVars, pipelineVars, callVars, contentVars, uiVars>>

\* the parent passes another diagram
ChangeDiagram ==
    \E k \in Instances, d \in DiagramValues :
        /\ comp[k].mounted
        /\ d # comp[k].diagram
        /\ events < MaxEvents
        /\ comp' = [comp EXCEPT ![k].diagram = d]
        /\ events' = events + 1
        /\ UNCHANGED <<docDark, pending, loaderVars, pipelineVars, callVars, contentVars, uiVars>>

\* the class of the document root changes; the observers call checkDarkMode
ToggleDark ==
    /\ events < MaxEvents
    /\ docDark' = ~docDark
    /\ comp' = [k \in Instances |->
                  IF comp[k].mounted THEN [comp[k] EXCEPT !.isDark = docDark']
                  ELSE comp[k]]
    /\ events' = events + 1
    /\ UNCHANGED <<pending, loaderVars, pipelineVars, callVars, contentVars, uiVars>>

Unmount ==
    \E k \in Instances :
        /\ comp[k].mounted
        /\ events < MaxEvents
        /\ comp' = [comp EXCEPT ![k] =
                        [Unmounted EXCEPT !.gen = comp[k].gen,
                                          !.calls = comp[k].calls]]
        /\ events' = events + 1
        /\ UNCHANGED <<docDark, pending, loaderVars, pipelineVars, callVars, contentVars, uiVars>>

\* a render promise settles; containerRef.current is null after the unmount
Settle ==
    \E p \in pending :
        /\ pending' = pending \ {p}
        /\ LET c == comp[p.inst]
               live == c.mounted /\ c.gen = p.gen
           IN  comp' = [comp EXCEPT ![p.inst] =
                    IF ~live THEN c
                    ELSE IF ValidGraph(p.graph) THEN resolved(c, p)
                    ELSE rejected(c, p)]
        /\ UNCHANGED <<docDark, events, loaderVars, pipelineVars, callVars, contentVars, uiVars>>

ViewNext ==
    \/ Mount
    \/ Rerender
    \/ ChangeDiagram
    \/ ToggleDark
    \/ Unmount
    \/ Settle

SpecView == ViewInit /\ [][ViewNext]_vars

Spec == Init /\ [][LoaderNext]_vars

(***************************************************************************)
(* Properties of the content loader.                                       *)
(***************************************************************************)
\* the places of the enumeration that hold the file <slug>.md
PlacesOf(slug) ==
    { j \in 1..Len(files) : files[j].name = [stem |-> slug, ext |-> ".md"] }

Listed == res.op = "getAllPosts" /\ ~res.threw

FlagIsFalse(file) == file.data.published = JsBool(FALSE)

\* C1: the list getAllPosts returns holds no post whose front-matter
\* published flag is false, and holds every .md file whose flag is not false.
C1_ListIsThePublishedFiles ==
    Listed =>
        /\ \A i \in 1..Len(res.value) :
              /\ PlacesOf(res.value[i].slug) # {}
              /\ \A j \in PlacesOf(res.value[i].slug) : ~FlagIsFalse(files[j])
        /\ \A j \in 1..Len(files) :
              (files[j].name.ext = ".md" /\ ~FlagIsFalse(files[j])) =>
                  Cardinality({ i \in 1..Len(res.value) :
                                  res.value[i].slug = files[j].name.stem }) = 1

C1_Witness ==
    /\ Listed
    /\ Len(res.value) >= 1
    /\ \E j \in 1..Len(files) : files[j].name.ext = ".md" /\ FlagIsFalse(files[j])
    /\ \E j \in 1..Len(files) :
          files[j].name.ext = ".md" /\ ~FlagIsFalse(files[j])

C3_EqualDatesKeepEnumerationOrder ==
    Listed =>
        \A i, j \in 1..Len(res.value) :
            (i < j /\ res.value[i].date = res.value[j].date) =>
                \A a \in PlacesOf(res.value[i].slug),
                   b \in PlacesOf(res.value[j].slug) : a < b

\* C4: with no content directory, getAllPosts and getAllPostSlugs return an
\* empty list and getPost returns null; none throws, none reads a file.
C4_MissingDirectoryIsEmpty ==
    (~dirExists /\ res.op \in {"getAllPosts", "getAllPostSlugs", "getPost"}) =>
        ~res.threw /\ res.value = <<>> /\ res.reads = 0

C4_Witness == ~dirExists /\ res.op = "getAllPostSlugs"

\* C5: for a slug with no file <slug>.md, getPost returns null, the page
\* answers notFound, generateMetadata gives the title 'Post Not Found', and
\* no post content is rendered.
C5_UnknownSlugIsNotFound ==
    /\ (res.op = "getPost" /\ PlacesOf(res.arg) = {}) =>
          ~res.threw /\ res.value = <<>>
    /\ (page.op = "BlogPostPage" /\ PlacesOf(page.slug) = {}) =>
          page.status = "notFound" /\ page.content = <<>>
    /\ (page.op = "generateMetadata" /\ PlacesOf(page.slug) = {}) =>
          page.title = JsStr("Post Not Found") /\ page.content = <<>>

C5_Witness ==
    /\ dirExists
    /\ page.op = "BlogPostPage"
    /\ PlacesOf(page.slug) = {}
    /\ \E j \in 1..Len(files) : files[j].name.stem = page.slug

\* the front matter gives title, description, date, tags and published
GivesAll(file) ==
    /\ file.data.title.t = "string"
    /\ file.data.description.t = "string"
    /\ file.data.tags.t = "object"
    /\ file.data.published.t = "boolean"

SameAsFrontMatter(post, file) ==
    /\ post.title = file.data.title
    /\ post.description = file.data.description
    /\ post.date = file.data.date
    /\ post.tags = file.data.tags
    /\ post.published = file.data.published.b
    /\ post.excerpt = file.data.description

MetadataFields ==
    {"slug", "title", "description", "date", "tags", "published", "excerpt"}

\* C10: for a file whose front matter gives title, description, date, tags
\* and published, getPost and getAllPosts return those values unchanged, with
\* excerpt equal to description, and the two agree on every field of every
\* listed post.
C10_FrontMatterUnchanged ==
    /\ (res.op = "getPost" /\ ~res.threw /\ res.value # <<>>) =>
          \A j \in PlacesOf(res.arg) :
              GivesAll(files[j]) => SameAsFrontMatter(res.value[1], files[j])
    /\ Listed =>
          \A i \in 1..Len(res.value) :
              /\ \A j \in PlacesOf(res.value[i].slug) :
                    GivesAll(files[j]) => SameAsFrontMatter(res.value[i], files[j])
              /\ LET one == getPost(dirExists, files, res.value[i].slug)
                 IN  /\ ~one.threw /\ one.value # <<>>
                     /\ \A f \in MetadataFields : one.value[1][f] = res.value[i][f]

C10_Witness ==
    /\ Listed
    /\ \E i \in 1..Len(res.value) :
          /\ res.value[i].tags = JsList(<<"t1", "t2">>)
          /\ res.value[i].title = JsStr("Y")
          /\ \E j \in PlacesOf(res.value[i].slug) : GivesAll(files[j])

\* the defaults of tags and published, in the record made from a file
HasDefaults(post, file) ==
    /\ file.data.tags = JsUndef => post.tags = JsList(<<>>)
    /\ file.data.published = JsUndef => post.published = TRUE
    /\ post.published = FALSE <=> file.data.published = JsBool(FALSE)

\* C11: in the records of getAllPosts and getPost, tags is the empty list
\* when the front matter has no tags, published is true when it has no
\* published field, and published is false only for the boolean false.
C11_TagsAndPublishedDefaults ==
    /\ (res.op = "getPost" /\ ~res.threw /\ res.value # <<>>) =>
          \A j \in PlacesOf(res.arg) : HasDefaults(res.value[1], files[j])
    /\ Listed =>
          \A i \in 1..Len(res.value) :
              \A j \in PlacesOf(res.value[i].slug) :
                  HasDefaults(res.value[i], files[j])

C11_Witness ==
    /\ res.op = "getPost" /\ ~res.threw /\ res.value # <<>>
    /\ \E j \in PlacesOf(res.arg) :
          /\ files[j].data.tags = JsUndef
          /\ files[j].data.published = JsStr("false")
          /\ res.value[1].published = TRUE
          /\ res.value[1].tags = JsList(<<>>)

\* the slug the front matter gives, the file name's when it gives none
SlugFor(file) ==
    IF file.data.slug.t = "string" THEN file.data.slug.s ELSE file.name.stem

\* C12: a post's slug is the slug of its front matter when the file gives
\* one, and the file name without .md only when it gives none, in the
\* records of getAllPosts, getPost and getAllPostSlugs.
C12_SlugIsFrontMatterSlug ==
    /\ (res.op = "getPost" /\ ~res.threw /\ res.value # <<>>) =>
          \A j \in PlacesOf(res.arg) : res.value[1].slug = SlugFor(files[j])
    /\ Listed =>
          \A j \in 1..Len(files) :
              (files[j].name.ext = ".md" /\ ~FlagIsFalse(files[j])) =>
                  \E i \in 1..Len(res.value) :
                      res.value[i].slug = SlugFor(files[j])
    /\ (res.op = "getAllPostSlugs" /\ ~res.threw /\ dirExists) =>
          LET md == MarkdownFiles(files)
          IN  /\ Len(res.value) = Len(md)
              /\ \A i \in 1..Len(md) :
                    res.value[i].params.slug = SlugFor(md[i])

\* C13: every entry e of the list of getAllPosts resolves: getPost(e.slug)
\* returns a post, not null, and that post's slug is e.slug.
C13_ListedEntriesResolve ==
    Listed =>
        \A i \in 1..Len(res.value) :
            LET post == getPost(dirExists, files, res.value[i].slug)
            IN  /\ ~post.threw
                /\ Len(post.value) = 1
                /\ post.value[1].slug = res.value[i].slug

C13_Witness ==
    /\ Listed
    /\ Len(res.value) >= 3
    /\ \E j \in 1..Len(files) : FlagIsFalse(files[j])

\* C14: reading is idempotent and free of side effects: no call changes the
\* content directory, and getAllPosts, or getPost with the same slug, called
\* twice in a row returns the same both times.
C14_ReadingIsIdempotent ==
    [][/\ files' = files
       /\ dirExists' = dirExists
       /\ (res.op \in {"getAllPosts", "getPost"}
             /\ res'.op = res.op /\ res'.arg = res.arg) => res' = res]_vars

\* the posts a feed or sitemap request has just read
PostsRead == getAllPosts(dirExists, files).value

\* C15: the sitemap has 1 + n entries for the n posts of getAllPosts: the
\* site root first, with priority 1, then per post and in the order of
\* getAllPosts the url <site url>/blog/<slug>, the post's date as
\* lastModified and priority 0.8; no unpublished post has an entry.
C15_SitemapIsRootPlusPosts ==
    (res.op = "sitemap" /\ ~res.threw) =>
        /\ Len(res.value) = 1 + Len(PostsRead)
        /\ res.value[1].url = SiteUrl
        /\ res.value[1].priority = 10
        /\ \A i \in 1..Len(PostsRead) :
              /\ res.value[i + 1].url = SiteUrl \o "/blog/" \o PostsRead[i].slug
              /\ res.value[i + 1].lastModified = PostsRead[i].date
              /\ res.value[i + 1].priority = 8
        /\ \A j \in 1..Len(files) :
              FlagIsFalse(files[j]) =>
                  \A i \in 1..Len(res.value) :
                      res.value[i].url # SiteUrl \o "/blog/" \o files[j].name.stem

C15_Witness ==
    /\ res.op = "sitemap" /\ ~res.threw
    /\ Len(res.value) >= 3
    /\ \E j \in 1..Len(files) : FlagIsFalse(files[j])
    /\ \E i, j \in 1..Len(files) : files[i].data.date # files[j].data.date

\* C16: the feed has one item per post of getAllPosts, in the same order,
\* each with the post's title, the link <site url>/blog/<slug>, the
\* description, the publish date and one category per tag; no unpublished
\* post has an item.
C16_FeedIsOneItemPerPost ==
    (res.op = "feed" /\ ~res.threw) =>
        /\ Len(res.value) = Len(PostsRead)
        /\ \A i \in 1..Len(PostsRead) :
              /\ PostsRead[i].title.t = "string"
                    => res.value[i].title = PostsRead[i].title.s
              /\ PostsRead[i].description.t = "string"
                    => res.value[i].description = PostsRead[i].description.s
              /\ res.value[i].link = SiteUrl \o "/blog/" \o PostsRead[i].slug
              /\ res.value[i].pubDate = PostsRead[i].date
              /\ res.value[i].category = PostsRead[i].tags.l
        /\ \A j \in 1..Len(files) :
              FlagIsFalse(files[j]) =>
                  \A i \in 1..Len(res.value) :
                      res.value[i].link # SiteUrl \o "/blog/" \o files[j].name.stem

C16_Witness ==
    /\ res.op = "feed" /\ ~res.threw
    /\ Len(res.value) = 1
    /\ res.value[1].category = <<"t1", "t2">>
    /\ res.value[1].title = "Y"

\* the page Next serves at <site url>/blog/<slug>
Served(slug) == BlogPostPageWithUrls(dirExists, files, slug)

\* C17: one and the same URL <site url>/blog/<slug> is a published post's
\* canonical URL, Open Graph url, JSON-LD url, sitemap entry and feed link:
\* every post URL of the sitemap and of the feed is the canonical URL of a
\* page that the blog page serves.
C17_OneUrlPerPost ==
    /\ (page.op = "BlogPostPageWithUrls" /\ page.status = "rendered") =>
          /\ page.canonical = SiteUrl \o "/blog/" \o page.slug
          /\ page.openGraph = page.canonical
          /\ page.jsonLd = page.canonical
          /\ page.mainEntity = page.canonical
    /\ (res.op = "sitemap" /\ ~res.threw) =>
          \A i \in 1..Len(PostsRead) :
              /\ Served(PostsRead[i].slug).status = "rendered"
              /\ Served(PostsRead[i].slug).canonical = res.value[i + 1].url
    /\ (res.op = "feed" /\ ~res.threw) =>
          \A i \in 1..Len(PostsRead) :
              /\ Served(PostsRead[i].slug).status = "rendered"
              /\ Served(PostsRead[i].slug).canonical = res.value[i].link

C17_Witness ==
    /\ res.op = "feed" /\ ~res.threw
    /\ Len(res.value) >= 2
    /\ \E j \in 1..Len(files) : FlagIsFalse(files[j])

(***************************************************************************)
(* Properties of the mermaid placeholder pipeline.                         *)
(***************************************************************************)
IsMermaid(node) == node.type = "code" /\ node.lang = "mermaid"

\* the sources of the mermaid blocks of a Markdown tree, in document order
MermaidSources(root) ==
    LET found == SelectSeq(Flatten(root), IsMermaid)
    IN  [i \in 1..Len(found) |-> found[i].value]

\* a node without its subtree
Shallow(node) == [node EXCEPT !.children = <<>>]

\* node is the placeholder markup around the encoded text of src
IsPlaceholderOf(node, src) ==
    /\ node.type = "html"
    /\ Len(node.value) >= 2
    /\ Head(node.value) = PlaceholderOpen
    /\ node.value[Len(node.value)] = PlaceholderClose
    /\ LET enc == SubSeq(node.value, 2, Len(node.value) - 1)
       IN  /\ \A k \in 1..Len(enc) : enc[k] # "\""
           /\ decodeURIComponent(enc) = Decoded(src)

\* C6: the source of a mermaid block reaches mermaid.render as exactly the
\* text it was in the Markdown, also when it holds a '%'.
C6_SourceReachesRenderUnchanged ==
    \A src \in Sources(MaxSourceLen) \ {<<>>} :
        (/\ markdown = MdParent("root", <<MdCode("mermaid", src)>>)
         /\ stage = "walked"
         /\ Len(diagrams) = 1
         /\ diagrams[1].ran)
        => diagrams[1].called /\ diagrams[1].graph = src

\* C7: every placeholder getPost inserts becomes exactly one MermaidDiagram
\* of BlogContent's output, in document order, also for an empty block.
C7_OneDiagramPerPlaceholder ==
    stage = "walked" => DiagramProps(processedContent) = MermaidSources(markdown)

\* C8: processMermaidBlocks replaces each mermaid code node by one
\* placeholder html node carrying its source and leaves every other node as
\* it was; there are as many placeholders as there were mermaid blocks.
C8_OnlyMermaidBlocksReplaced ==
    stage # "markdown" =>
        LET before == Flatten(markdown)
            after == Flatten(mdast)
        IN  /\ Len(after) = Len(before)
            /\ \A i \in 1..Len(before) :
                  IF IsMermaid(before[i])
                  THEN IsPlaceholderOf(after[i], before[i].value)
                  ELSE Shallow(after[i]) = Shallow(before[i])
            /\ Cardinality({ i \in 1..Len(after) : after[i].type = "html" })
                  = Len(MermaidSources(markdown))

C8_Witness ==
    /\ stage = "html"
    /\ \E i, j, k \in 1..Len(markdown.children) :
          /\ markdown.children[i] = MdParent("blockquote", <<MdCode("mermaid", <<"g">>)>>)
          /\ markdown.children[j] = MdCode("js", <<"%">>)
          /\ markdown.children[k] = MdCode("mermaid", <<"%">>)


(***************************************************************************)
(* Properties of the MermaidDiagram components (SpecView).                 *)
(***************************************************************************)
\* this step mounted component k or ran its render effect again
EffectRan(k) ==
    /\ comp'[k].mounted
    /\ \/ comp'[k].gen # comp[k].gen
       \/ comp'[k].deps # comp[k].deps

\* the promises of the live component k that settle in this step
SettledFor(k) ==
    {p \in pending \ pending' :
        p.inst = k /\ comp[k].mounted /\ comp[k].gen = p.gen}

\* a failure puts its message into the container of the failing diagram
FailureWritesError ==
    \A k \in Instances :
        /\ (EffectRan(k) /\ ~decodeURIComponent(comp'[k].deps.diagram).ok)
              => comp'[k].container = ErrorBox(ErrorProcessing)
        /\ \A p \in SettledFor(k) :
              ~ValidGraph(p.graph) => comp'[k].container = ErrorBox(ErrorRendering)

\* a container changes only by its own component
OthersUntouched ==
    \A k \in Instances :
        comp'[k].container # comp[k].container
            => \/ EffectRan(k)
               \/ SettledFor(k) # {}
               \/ ~comp'[k].mounted

\* the component calls mermaid.render in this step for a diagram that has
\* already failed since it was mounted
RendersFailedAgain(k) ==
    /\ comp'[k].gen = comp[k].gen
    /\ comp'[k].calls > comp[k].calls
    /\ comp[k].diagram \in comp[k].failed
    /\ comp'[k].diagram = comp[k].diagram

\* C9, as stated: a failed render writes the inline error into its own
\* container, mermaid.render is never called again for the same props, and
\* every other container stays as it was.
C9_NeverRendersSamePropsAgain ==
    [][/\ FailureWritesError
       /\ \A k \in Instances : ~RendersFailedAgain(k)
       /\ OthersUntouched]_vars

\* C9, amended: a failed render writes the inline error into its own
\* container while the component is mounted, mermaid.render is called only
\* by a run of the render effect (at mount, or when the diagram prop or the
\* detected dark mode differs from the last run) and never because a render
\* failed, and every other container stays as it was.
C9_FailureIsInlineAndNotRetried ==
    [][/\ FailureWritesError
       /\ \A k \in Instances : comp'[k].calls > comp[k].calls => EffectRan(k)
       /\ OthersUntouched]_vars

\* one diagram shows the render error after its render was rejected and, the
\* theme having changed, is being rendered once more; the other one shows
\* its SVG
C9_Witness ==
    \E k \in Instances, j \in Instances :
        /\ k # j
        /\ comp[k].mounted
        /\ comp[k].container = ErrorBox(ErrorRendering)
        /\ comp[k].diagram \in comp[k].failed
        /\ \E p \in pending :
              p.inst = k /\ p.gen = comp[k].gen /\ p.n >= 2
                /\ p.graph = comp[k].diagram
        /\ comp[j].mounted
        /\ comp[j].container.kind = "svg"


(***************************************************************************)
(* Properties of the round trip of a document without diagrams             *)
(* (SpecRoundTrip).  The outline of a tree is what is left of it when only *)
(* headings, lists, list items, code blocks and the text that is not white *)
(* space are kept, in their order and nesting.                             *)
(***************************************************************************)
Whitespace == {" ", "\n"}

Trim(text) == SelectSeq(text, LAMBDA c : c \notin Whitespace)

OutlineNode(tag, text, children) ==
    [tag |-> tag, text |-> text, children |-> children]

OutlineText(text) ==
    IF Trim(text) = <<>> THEN <<>>
    ELSE <<OutlineNode("#text", Trim(text), <<>>)>>

StructureTags == {"h1", "ul", "li", "pre"}

RECURSIVE OutlineOfReact(_)
OutlineOfReact(node) ==
    LET RECURSIVE Over(_)
        Over(nodes) ==
            IF nodes = <<>> THEN <<>>
            ELSE OutlineOfReact(Head(nodes)) \o Over(Tail(nodes))
    IN  CASE node.kind = "text" -> OutlineText(node.text)
          [] node.kind = "element" /\ node.tag \in StructureTags ->
                <<OutlineNode(node.tag, <<>>, Over(node.children))>>
          [] node.kind = "element" -> Over(node.children)
          [] OTHER -> <<>>

RECURSIVE OutlineOfMarkdown(_)
OutlineOfMarkdown(node) ==
    LET RECURSIVE Over(_)
        Over(nodes) ==
            IF nodes = <<>> THEN <<>>
            ELSE OutlineOfMarkdown(Head(nodes)) \o Over(Tail(nodes))
    IN  CASE node.type = "text" -> OutlineText(node.value)
          [] node.type = "code" ->
                <<OutlineNode("pre", <<>>, OutlineText(node.value))>>
          [] node.type = "heading" ->
                <<OutlineNode("h1", <<>>, Over(node.children))>>
          [] node.type = "list" ->
                <<OutlineNode("ul", <<>>, Over(node.children))>>
          [] node.type = "listItem" ->
                <<OutlineNode("li", <<>>, Over(node.children))>>
          [] OTHER -> Over(node.children)

\* C18: for a document without math and diagrams, every heading, list, list
\* item and code block of the Markdown has exactly one element in the page
\* output, in the same order and nesting, and no text that is not white
\* space is lost between getPost's transform and BlogContent's walk.
C18_StructureSurvivesRoundTrip ==
    stage = "walked" =>
        OutlineOfReact(ReactNode("element", "", <<>>, <<>>, processedContent))
            = OutlineOfMarkdown(markdown)

C18_Witness ==
    /\ stage = "walked"
    /\ Len(markdown.children) = 2
    /\ markdown.children[1] = NestedList
    /\ markdown.children[2] = MdParent("heading", <<>>)
    /\ Len(processedContent) = 3


(***************************************************************************)
(* Properties of getPost calls that run at the same time (SpecConcurrent). *)
(***************************************************************************)
\* what getPost(slug) returns when it is the only call of the process
Alone(slug) ==
    IF \E i \in 1..Len(files) : IsPathOf(slug, files[i].name) /\ files[i].malformed
    THEN Thrown(1)
    ELSE getPost(dirExists, files, slug)

\* C19: of two getPost calls that run at the same time, for the same slug
\* or for different ones, each returns what it returns when run alone.
C19_ConcurrentCallsAreIndependent ==
    \A c \in CallIds :
        calls[c].pc = "done" => calls[c].result = Alone(calls[c].slug)


(***************************************************************************)
(* Properties of a BlogContent component over its life (SpecBlogContent).  *)
(***************************************************************************)
\* the nodes a first walk over the content gives
WalkOf(content) ==
    LET childNodes == [i \in 1..Len(content) |-> innerHTML(content[i])]
        all == [i \in 1..Len(childNodes) |-> processNode(childNodes[i])]
    IN  SelectSeq(all, LAMBDA c : c # ReactNull /\ c # ReactText(<<>>))

\* C20: BlogContent runs one walk per mount and one per change of its
\* content prop and none otherwise; before the first walk its output is
\* empty, and once the walk for the latest content has run its output is
\* the nodes of that content only.
C20_OneWalkPerContent ==
    /\ blog.walks = blog.commits - (IF blog.effectPending THEN 1 ELSE 0)
    /\ (blog.mounted /\ blog.effectPending /\ blog.processedContent # <<>>)
          => \E earlier \in ContentProps \ {blog.content} :
                blog.processedContent = WalkOf(earlier)
    /\ (blog.mounted /\ ~blog.effectPending)
          => blog.processedContent = WalkOf(blog.content)

C20_Witness ==
    /\ blog.mounted
    /\ ~blog.effectPending
    /\ blog.walks = 3
    /\ blog.commits = 3
    /\ blog.renders >= 1
    /\ Len(DiagramProps(blog.processedContent)) = 1

(***************************************************************************)
(* Reading time (lib/readingTime.ts).  A text is a sequence of characters; *)
(* the estimators remove tags, trim, split at whitespace and divide the    *)
(* number of pieces by wordsPerMinute.                                     *)
(***************************************************************************)
MaxContentLen == 4

ContentChars == {"a", " ", "\n", "<", ">"}

\* n words of one letter, one blank between two of them
WordsText(n) == [i \in 1..(2 * n - 1) |-> IF i % 2 = 1 THEN "a" ELSE " "]

\* The texts estimated: every short text, and long ones around the
\* multiples of wordsPerMinute, bare or followed by a tag.
ReadingContents ==
    UNION {[1..n -> ContentChars] : n \in 0..MaxContentLen}
    \cup {WordsText(n) : n \in {199, 200, 201, 400, 401}}
    \cup {WordsText(n) \o <<"<", "a", ">">> : n \in {200, 201}}

wordsPerMinute == 200

\* /\s/
IsSpace(c) == c \in {" ", "\n"}

\* content.replace(/<[^>]*>/g, ''): a match runs from a "<" to the first
\* ">" after it, so a character is inside a match exactly when a "<" at or
\* before it has no ">" in between and a ">" stands at or after it; a "<"
\* with no ">" after it is kept.
InTag(content, i) ==
    /\ \E p \in 1..i : /\ content[p] = "<"
                       /\ \A k \in p..(i - 1) : content[k] # ">"
    /\ \E q \in i..Len(content) : content[q] = ">"

\* the characters of content[lo..hi] that are outside every match
RECURSIVE keptOf(_, _, _)
keptOf(content, lo, hi) ==
    IF lo > hi THEN <<>>
    ELSE IF lo = hi
    THEN IF InTag(content, lo) THEN <<>> ELSE <<content[lo]>>
    ELSE LET mid == (lo + hi) \div 2
         IN  keptOf(content, lo, mid) \o keptOf(content, mid + 1, hi)

removeTags(content) == keptOf(content, 1, Len(content))

\* String.prototype.trim
trim(text) ==
    LET inked == {i \in 1..Len(text) : ~IsSpace(text[i])}
    IN  IF inked = {} THEN <<>>
        ELSE SubSeq(text, CHOOSE i \in inked : \A j \in inked : i <= j,
                          CHOOSE i \in inked : \A j \in inked : i >= j)

\* A piece of text.split(/\s+/) starts at 1 and after every maximal run of
\* whitespace, the end of the text included.
StartsPiece(text, i) ==
    \/ i = 1
    \/ /\ IsSpace(text[i - 1])
       /\ (i = Len(text) + 1 \/ ~IsSpace(text[i]))

\* the piece starting at i ends before the next whitespace
PieceAt(text, i) ==
    LET n == Len(text)
        stop == IF \E j \in i..n : IsSpace(text[j])
                THEN (CHOOSE j \in i..n :
                          /\ IsSpace(text[j])
                          /\ \A k \in i..(j - 1) : ~IsSpace(text[k])) - 1
                ELSE n
    IN  SubSeq(text, i, stop)

\* the pieces that start in lo..hi
RECURSIVE piecesOf(_, _, _)
piecesOf(text, lo, hi) ==
    IF lo > hi THEN <<>>
    ELSE IF lo = hi
    THEN IF StartsPiece(text, lo) THEN <<PieceAt(text, lo)>> ELSE <<>>
    ELSE LET mid == (lo + hi) \div 2
         IN  piecesOf(text, lo, mid) \o piecesOf(text, mid + 1, hi)

\* text.split(/\s+/): a text with no whitespace, the empty text included,
\* is one piece.
split(text) == piecesOf(text, 1, Len(text) + 1)

\* Math.ceil(words / wordsPerMinute), words a non-negative integer
ceilDiv(words, per) == (words + per - 1) \div per

getReadingTimeMinutes(content) ==
    ceilDiv(Len(split(trim(removeTags(content)))), wordsPerMinute)

calculateReadingTime(content) ==
    LET text == removeTags(content)
        words == Len(split(trim(text)))
        minutes == ceilDiv(words, wordsPerMinute)
    IN  IF minutes = 1 THEN "1 min read"
        ELSE ToString(minutes) \o " min read"

\* a text nothing has been asked about
Unestimated(content) == [content |-> content, fn |-> "none", result |-> "none"]

ReadingInit ==
    /\ reading \in {Unestimated(content) : content \in ReadingContents}
    /\ client = "off" /\ app = "off" /\ share = "off"
    /\ LoaderOff /\ PipelineOff /\ ViewOff /\ CallsOff

CallCalculateReadingTime ==
    /\ reading.fn # "calculateReadingTime"
    /\ reading' = [reading EXCEPT !.fn = "calculateReadingTime",
                                  !.result = calculateReadingTime(reading.content)]
    /\ UNCHANGED <<client, app, share, loaderVars, pipelineVars, viewVars,
                   callVars, contentVars>>

CallGetReadingTimeMinutes ==
    /\ reading.fn # "getReadingTimeMinutes"
    /\ reading' = [reading EXCEPT !.fn = "getReadingTimeMinutes",
                                  !.result = getReadingTimeMinutes(reading.content)]
    /\ UNCHANGED <<client, app, share, loaderVars, pipelineVars, viewVars,
                   callVars, contentVars>>

ReadingNext == CallCalculateReadingTime \/ CallGetReadingTimeMinutes

SpecReading == ReadingInit /\ [][ReadingNext]_vars

\* The words of a text: the maximal runs of characters that are not
\* whitespace.
WordCount(text) ==
    Cardinality({i \in 1..Len(text) :
                    ~IsSpace(text[i]) /\ (i = 1 \/ IsSpace(text[i - 1]))})

\* C21: calculateReadingTime(content) is '<N> min read' with N the number
\* of whitespace-separated words left after the tags are removed, divided
\* by 200 and rounded up, and N is getReadingTimeMinutes(content); this for
\* every text, the empty and the all-whitespace ones included.
C21_ReadingTimeIsWordsOver200 ==
    reading.fn = "calculateReadingTime" =>
        LET N == ceilDiv(WordCount(removeTags(reading.content)), 200)
        IN  /\ reading.result = ToString(N) \o " min read"
            /\ N = getReadingTimeMinutes(reading.content)

(***************************************************************************)
(* The browser build of the loader (lib/blog.ts, "Client-side blog         *)
(* utilities"): getAllPosts and getPost fetch /api/blog and fall back in   *)
(* their catch blocks.  An async function is followed await by await; the  *)
(* network decides how fetch and response.json() settle.                   *)
(***************************************************************************)
ClientFns == {"getAllPosts", "getPost"}

ClientSlugs == {"a", "b"}

\* what a server may send: text that is no JSON, or JSON (any JSON: the
\* functions return what response.json() gives without looking at it)
ResponseBodies == {"<html>", "json:1", "json:2"}

\* how fetch settles: it rejects, or it gives a response
FetchOutcomes ==
    {[rejected |-> TRUE, ok |-> FALSE, body |-> ""]}
    \cup {[rejected |-> FALSE, ok |-> ok, body |-> body] :
              ok \in BOOLEAN, body \in ResponseBodies}

NotFetched == [rejected |-> FALSE, ok |-> FALSE, body |-> "none"]

\* the values a promise of these functions can carry
ClientValue(kind, posts, body) == [kind |-> kind, posts |-> posts, body |-> body]

PromisePending == [state |-> "pending", value |-> ClientValue("none", <<>>, "")]

Fulfilled(value) == [state |-> "fulfilled", value |-> value]

Rejected(reason) == [state |-> "rejected", value |-> reason]

\* the list of the catch block, as written (dates as yyyymmdd: strings of
\* one length compare as their digits do)
FallbackPosts ==
    << [slug |-> "clean-code-principles", date |-> 20240728, published |-> TRUE],
       [slug |-> "react-hooks-guide", date |-> 20240725, published |-> TRUE],
       [slug |-> "scalable-apis-nodejs", date |-> 20240721, published |-> TRUE],
       [slug |-> "machine-learning-intro", date |-> 20240718, published |-> TRUE] >>

\* (a, b) => { if (a.date < b.date) return 1; if (a.date > b.date) return -1; return 0 }
fallbackComparator(a, b) ==
    IF a.date < b.date THEN 1 ELSE IF a.date > b.date THEN -1 ELSE 0

\* Array.prototype.sort with the fallback's comparator.  The sort is stable
\* and the comparator is a consistent order, so the result is the one
\* stable insertion gives.
RECURSIVE sortFallback(_, _)
sortFallback(sorted, rest) ==
    IF rest = <<>> THEN sorted
    ELSE LET x == Head(rest)
             \* x goes after the last element that does not come after it
             at == Cardinality({i \in 1..Len(sorted) :
                                   fallbackComparator(sorted[i], x) <= 0})
         IN  sortFallback(SubSeq(sorted, 1, at) \o <<x>>
                          \o SubSeq(sorted, at + 1, Len(sorted)), Tail(rest))

\* a catch block that lets the error go
catchRethrows(fn) == Rejected(ClientValue("error", <<>>, ""))

\* catch (error) { console.error(...); return <fallback> | null }
catch(fn) ==
    IF fn = "getAllPosts"
    THEN Fulfilled(ClientValue("list", sortFallback(<<>>, FallbackPosts), ""))
    ELSE Fulfilled(ClientValue("null", <<>>, ""))

\* response.ok
responseOk(response) == response.ok

ClientIdle ==
    [pc |-> "idle", slug |-> "", fetch |-> NotFetched, promise |-> PromisePending]

ClientInit ==
    /\ client = [fn \in ClientFns |-> ClientIdle]
    /\ reading = "off" /\ app = "off" /\ share = "off"
    /\ LoaderOff /\ PipelineOff /\ ViewOff /\ CallsOff

\* getAllPosts() or getPost(slug) is called and reaches `await fetch(...)`
ClientCall ==
    \E fn \in ClientFns, slug \in ClientSlugs :
        /\ client[fn].pc \in {"idle", "done"}
        /\ fn = "getAllPosts" => slug = "a"
        /\ client' = [client EXCEPT ![fn] =
                [pc |-> "fetch", slug |-> IF fn = "getPost" THEN slug ELSE "",
                 fetch |-> NotFetched, promise |-> PromisePending]]
        /\ UNCHANGED <<reading, app, share, loaderVars, pipelineVars, viewVars,
                       callVars, contentVars>>

\* fetch settles: a rejection and `throw new Error(...)` of a response
\* that is not ok both land in the catch block; else `await response.json()`
FetchSettles ==
    \E fn \in ClientFns, outcome \in FetchOutcomes :
        /\ client[fn].pc = "fetch"
        /\ client' = [client EXCEPT ![fn] =
                IF outcome.rejected \/ ~responseOk(outcome)
                THEN [@ EXCEPT !.pc = "done", !.fetch = outcome,
                               !.promise = catch(fn)]
                ELSE [@ EXCEPT !.pc = "json", !.fetch = outcome]]
        /\ UNCHANGED <<reading, app, share, loaderVars, pipelineVars, viewVars,
                       callVars, contentVars>>

\* response.json() settles: it rejects for a body that is no JSON, which
\* lands in the catch block; else the function returns the parsed value
JsonSettles ==
    \E fn \in ClientFns :
        /\ client[fn].pc = "json"
        /\ client' = [client EXCEPT ![fn] =
                [@ EXCEPT !.pc = "done",
                          !.promise = IF client[fn].fetch.body = "<html>"
                                      THEN catch(fn)
                                      ELSE Fulfilled(ClientValue("json", <<>>,
                                               client[fn].fetch.body))]]
        /\ UNCHANGED <<reading, app, share, loaderVars, pipelineVars, viewVars,
                       callVars, contentVars>>

ClientNext == ClientCall \/ FetchSettles \/ JsonSettles

SpecClient == ClientInit /\ [][ClientNext]_vars

\* the call could not get its data: fetch rejected, the response was not
\* ok, or its body was no JSON
ClientFailed(call) ==
    \/ call.fetch.rejected
    \/ ~call.fetch.ok
    \/ call.fetch.body = "<html>"

DateDescending(posts) ==
    \A i, j \in 1..Len(posts) : i < j => posts[i].date >= posts[j].date

\* C22: the client-side getAllPosts never rejects, and when fetch fails or
\* the response is not OK it resolves to the hardcoded fallback list
\* ordered by date descending; the client-side getPost never rejects
\* either and resolves to null on any failure.
C22_ClientLoaderNeverRejects ==
    /\ \A fn \in ClientFns : client[fn].promise.state # "rejected"
    /\ \A fn \in ClientFns : client[fn].pc = "done" =>
           client[fn].promise.state = "fulfilled"
    /\ LET call == client["getAllPosts"]
       IN  (call.pc = "done" /\ (call.fetch.rejected \/ ~call.fetch.ok)) =>
               /\ call.promise.value.kind = "list"
               /\ DateDescending(call.promise.value.posts)
               /\ Len(call.promise.value.posts) = Len(FallbackPosts)
               /\ {call.promise.value.posts[i] : i \in 1..Len(FallbackPosts)}
                      = {FallbackPosts[i] : i \in 1..Len(FallbackPosts)}
    /\ LET call == client["getPost"]
       IN  (call.pc = "done" /\ ClientFailed(call)) =>
               call.promise.value.kind = "null"

\* getAllPosts met a response that was not ok and getPost a body that was
\* no JSON; both have settled
C22_Witness ==
    /\ client["getAllPosts"].pc = "done"
    /\ ~client["getAllPosts"].fetch.rejected
    /\ ~client["getAllPosts"].fetch.ok
    /\ client["getPost"].pc = "done"
    /\ client["getPost"].fetch.ok
    /\ client["getPost"].fetch.body = "<html>"

(***************************************************************************)
(* The published flag outside the listing.                                 *)
(***************************************************************************)
\* the .md files whose front matter has published: false
UnpublishedPlaces ==
    {j \in 1..Len(files) : endsWithMd(files[j].name) /\ FlagIsFalse(files[j])}

\* C23: getPost does not apply the published flag: for an existing file
\* whose front matter has published false, getPost returns the full post,
\* with published false, and the blog page renders it, although
\* getAllPosts, the sitemap and the feed leave it out.
C23_GetPostIgnoresPublished ==
    \A j \in UnpublishedPlaces :
        LET slug == files[j].name.stem
            url == SiteUrl \o "/blog/" \o slug
            map == sitemap(dirExists, files)
            feed == GET(dirExists, files)
        IN  /\ (res.op = "getPost" /\ res.arg = slug) =>
                  /\ ~res.threw
                  /\ Len(res.value) = 1
                  /\ res.value[1].slug = slug
                  /\ res.value[1].published = FALSE
                  /\ res.value[1].title = files[j].data.title
                  /\ res.value[1].content = remarkProcess(files[j].body).html
            /\ (page.op = "BlogPostPage" /\ page.slug = slug) =>
                  /\ page.status = "rendered"
                  /\ page.title = files[j].data.title
                  /\ page.content = remarkProcess(files[j].body).html
            /\ Listed =>
                  \A i \in 1..Len(res.value) : res.value[i].slug # slug
            /\ ~map.threw =>
                  \A i \in 1..Len(map.value) : map.value[i].url # url
            /\ ~feed.threw =>
                  \A i \in 1..Len(feed.value) : feed.value[i].link # url

\* getPost has returned a post that is not published, from a directory
\* that also holds a published one
C23_Witness ==
    /\ res.op = "getPost"
    /\ ~res.threw
    /\ Len(res.value) = 1
    /\ res.value[1].published = FALSE
    /\ Len(getAllPosts(dirExists, files).value) >= 1

(***************************************************************************)
(* App (src/App.tsx): the tabs, the selected post and dark mode.  React    *)
(* state is what the last render committed: a value given to a setter and *)
(* a functional update wait until the next render (setActiveTab,           *)
(* setSelectedPost and queue hold them), and toggleDarkMode reads          *)
(* isDarkMode from the closure of the render that made it.                 *)
(***************************************************************************)
MaxQueued == 2

PostSlugs == {"", "a", "b"}

\* JSON.stringify of a boolean
JSONstringify(value) == IF value THEN "true" ELSE "false"

\* JSON.parse of what JSON.stringify wrote
JSONparse(text) == text = "true"

\* localStorage.getItem('darkMode') before the App has mounted: null (the
\* empty text here), or what an earlier visit stored
StoredValues == {"", "true", "false"}

\* handleTabChange without setSelectedPost(null)
handleTabChangeKeepingPost(state, tab) == [state EXCEPT !.setActiveTab = tab]

\* setActiveTab(tab); setSelectedPost(null): one event handler, one render
handleTabChange(state, tab) ==
    [state EXCEPT !.setActiveTab = tab, !.setSelectedPost = JsNull]

\* setSelectedPost(slug); setActiveTab('blog')
handlePostSelect(state, slug) ==
    [state EXCEPT !.setSelectedPost = JsStr(slug), !.setActiveTab = "blog"]

\* onBack={() => setSelectedPost(null)}
onBack(state) == [state EXCEPT !.setSelectedPost = JsNull]

\* setIsDarkMode(prev => !prev), then localStorage and the class are set
\* from !isDarkMode of the closure
toggleDarkMode(state) ==
    [state EXCEPT !.queue = Append(@, "not"),
                  !.stored = JSONstringify(~state.closure),
                  !.rootDark = ~state.closure]

\* the mount effect: a stored value, when there is one, becomes the state
\* and the class
mountEffect(state) ==
    IF state.stored # ""
    THEN LET darkModeValue == JSONparse(state.stored)
         IN  [state EXCEPT !.effectRan = TRUE,
                           !.queue = Append(@, JSONstringify(darkModeValue)),
                           !.rootDark = darkModeValue]
    ELSE [state EXCEPT !.effectRan = TRUE]

\* the state after the queued updates, applied in order
RECURSIVE reduceQueue(_, _)
reduceQueue(value, queue) ==
    IF queue = <<>> THEN value
    ELSE reduceQueue(IF Head(queue) = "not" THEN ~value
                     ELSE JSONparse(Head(queue)), Tail(queue))

\* a render: the values set since the last one become the state, the
\* queue is applied, and the handlers made by this render close over the
\* new isDarkMode
render(state) ==
    [state EXCEPT !.activeTab = IF state.setActiveTab # "" THEN state.setActiveTab
                                ELSE @,
                  !.selectedPost = IF state.setSelectedPost # JsUndef
                                   THEN state.setSelectedPost ELSE @,
                  !.setActiveTab = "",
                  !.setSelectedPost = JsUndef,
                  !.isDarkMode = reduceQueue(state.isDarkMode, state.queue),
                  !.closure = reduceQueue(state.isDarkMode, state.queue),
                  !.queue = <<>>]

\* a state update waits for the next render
UpdatePending(state) ==
    state.queue # <<>> \/ state.setActiveTab # "" \/ state.setSelectedPost # JsUndef

\* what the App shows, by the conditions of its JSX
ShownPages(state) ==
    {shown \in {"home", "blog", "blog-post"} :
        \/ shown = "home" /\ state.activeTab = "home"
        \/ shown = "blog" /\ state.activeTab = "blog" /\ ~Truthy(state.selectedPost)
        \/ shown = "blog-post" /\ state.activeTab = "blog" /\ Truthy(state.selectedPost)}

AppInit ==
    /\ app \in {[activeTab |-> "home", selectedPost |-> JsNull,
                 setActiveTab |-> "", setSelectedPost |-> JsUndef,
                 isDarkMode |-> TRUE, closure |-> TRUE, queue |-> <<>>,
                 effectRan |-> FALSE, stored |-> stored, rootDark |-> rootDark] :
                    stored \in StoredValues, rootDark \in BOOLEAN}
    /\ reading = "off" /\ client = "off" /\ share = "off"
    /\ LoaderOff /\ PipelineOff /\ ViewOff /\ CallsOff

RunMountEffect ==
    /\ ~app.effectRan
    /\ app' = mountEffect(app)
    /\ UNCHANGED <<reading, client, share, loaderVars, pipelineVars, viewVars,
                   callVars, contentVars>>

Render ==
    /\ app.effectRan
    /\ UpdatePending(app)
    /\ app' = render(app)
    /\ UNCHANGED <<reading, client, share, loaderVars, pipelineVars, viewVars,
                   callVars, contentVars>>

\* a click on a tab
ClickTab ==
    \E tab \in {"home", "blog"} :
        /\ app.effectRan
        /\ app' = handleTabChange(app, tab)
        /\ UNCHANGED <<reading, client, share, loaderVars, pipelineVars, viewVars,
                       callVars, contentVars>>

\* a click on a post card of the home page or of the blog list
ClickPost ==
    \E slug \in PostSlugs :
        /\ app.effectRan
        /\ app' = handlePostSelect(app, slug)
        /\ UNCHANGED <<reading, client, share, loaderVars, pipelineVars, viewVars,
                       callVars, contentVars>>

\* a click on the post view's back button
ClickBack ==
    /\ app.effectRan
    /\ app' = onBack(app)
    /\ UNCHANGED <<reading, client, share, loaderVars, pipelineVars, viewVars,
                   callVars, contentVars>>

\* a call of toggleDarkMode; up to MaxQueued of them before a render
ClickToggle ==
    /\ app.effectRan
    /\ Len(app.queue) < MaxQueued
    /\ app' = toggleDarkMode(app)
    /\ UNCHANGED <<reading, client, share, loaderVars, pipelineVars, viewVars,
                   callVars, contentVars>>

AppNext ==
    \/ RunMountEffect
    \/ Render
    \/ ClickTab
    \/ ClickPost
    \/ ClickBack
    \/ ClickToggle

SpecApp == AppInit /\ [][AppNext]_vars

\* C24: in App, after any sequence of handleTabChange, handlePostSelect
\* and the post view's onBack, a selected post implies the blog tab, and
\* exactly one of the home page, the blog list and the post view is shown.
C24_SelectedPostImpliesBlogTab ==
    /\ app.selectedPost # JsNull => app.activeTab = "blog"
    /\ Cardinality(ShownPages(app)) = 1

\* a post was selected, then left by the home tab, and a post is selected
\* anew while dark mode has been toggled
C24_Witness ==
    /\ app.selectedPost = JsStr("b")
    /\ app.activeTab = "blog"
    /\ ShownPages(app) = {"blog-post"}
    /\ ~app.isDarkMode

\* C25: in App, after the mount effect and after any sequence of
\* toggleDarkMode calls, two calls before a re-render included, the value
\* stored under localStorage key 'darkMode' and the presence of the 'dark'
\* class on the document root both equal the isDarkMode state.
C25_StoredAndClassFollowState ==
    (app.effectRan /\ app.queue = <<>>) =>
        /\ app.stored = JSONstringify(app.isDarkMode)
        /\ app.rootDark = app.isDarkMode

(***************************************************************************)
(* MermaidDiagram: renders that are still pending when the props change.   *)
(***************************************************************************)
\* the render promises of the component's present mount that have not
\* settled
PendingOf(k) == {p \in pending : p.inst = k /\ p.gen = comp[k].gen}

\* what the render effect and its promise put into the container for the
\* props c has now
ShownFor(c) ==
    LET effect == RenderEffect(c.diagram)
    IN  IF effect.error # "" THEN ErrorBox(effect.error)
        ELSE IF ValidGraph(effect.graph) THEN SvgOf(effect.graph, c.isDark)
        ELSE ErrorBox(ErrorRendering)

\* C26: when MermaidDiagram's diagram or isDark prop changes while an
\* earlier mermaid.render call is still pending, the container finally,
\* once the effect has run for the latest props and every pending render
\* has settled in whatever order, shows the SVG or the error of the latest
\* props.
C26_LatestPropsWin ==
    \A k \in Instances :
        (/\ comp[k].mounted
         /\ comp[k].deps = Deps(comp[k].diagram, comp[k].isDark)
         /\ PendingOf(k) = {}) =>
            comp[k].container = ShownFor(comp[k])

(***************************************************************************)
(* BlogPostView (src/App.tsx): the view mounts with a slug, its effect     *)
(* awaits getPost(slug), and the setters called after the await take       *)
(* effect at a later render.  A promise of an earlier mount may still      *)
(* settle after the view is gone.                                          *)
(***************************************************************************)
MaxMounts == 3

ViewSlugs == {"a", "b"}

\* a post getPost found; what makes it a post is that it is an object
PostObject(slug) == [t |-> "object", b |-> FALSE, s |-> slug, l |-> <<>>]

\* how the promise of getPost(slug) can settle
GetPostOutcomes(slug) ==
    {[rejected |-> FALSE, value |-> PostObject(slug)],
     [rejected |-> FALSE, value |-> JsNull],
     [rejected |-> TRUE, value |-> JsUndef]}

NoPostView ==
    [mounted |-> FALSE, gen |-> 0, slug |-> "", post |-> JsNull,
     loading |-> TRUE, queue |-> <<>>, settled |-> FALSE, obtained |-> JsNull]

\* a loadPost whose setLoading(false) is the last statement of the try
\* block
loadPostWithoutFinally(view, outcome) ==
    [view EXCEPT !.settled = TRUE,
                 !.obtained = IF outcome.rejected THEN JsNull ELSE outcome.value,
                 !.queue = IF outcome.rejected THEN @
                           ELSE IF Truthy(outcome.value)
                           THEN @ \o <<[set |-> "post", value |-> outcome.value],
                                       [set |-> "loading", value |-> JsBool(FALSE)]>>
                           ELSE Append(@, [set |-> "loading", value |-> JsBool(FALSE)])]

\* loadPost from the await on: setPost(foundPost) for a truthy result, the
\* catch for a rejection, and setLoading(false) in the finally block
loadPost(view, outcome) ==
    [view EXCEPT !.settled = TRUE,
                 !.obtained = IF outcome.rejected THEN JsNull ELSE outcome.value,
                 !.queue = IF ~outcome.rejected /\ Truthy(outcome.value)
                           THEN @ \o <<[set |-> "post", value |-> outcome.value],
                                       [set |-> "loading", value |-> JsBool(FALSE)]>>
                           ELSE Append(@, [set |-> "loading", value |-> JsBool(FALSE)])]

\* the state after the first n queued setter calls
RECURSIVE commit(_, _)
commit(view, n) ==
    IF n = 0 THEN view
    ELSE LET update == Head(view.queue)
             next == IF update.set = "post"
                     THEN [view EXCEPT !.post = update.value, !.queue = Tail(@)]
                     ELSE [view EXCEPT !.loading = update.value.b, !.queue = Tail(@)]
         IN  commit(next, n - 1)

\* what BlogPostView returns
BlogPostView(view) ==
    IF view.loading THEN "Loading post..."
    ELSE IF ~Truthy(view.post) THEN "Post Not Found"
    ELSE view.post.s

PostViewInit ==
    /\ app = [view |-> NoPostView, getPost |-> {}]
    /\ reading = "off" /\ client = "off" /\ share = "off"
    /\ LoaderOff /\ PipelineOff /\ ViewOff /\ CallsOff

\* a post is selected: the view mounts and its effect calls getPost(slug)
MountPostView ==
    \E slug \in ViewSlugs :
        /\ ~app.view.mounted
        /\ app.view.gen < MaxMounts
        /\ app' = [view |-> [NoPostView EXCEPT !.mounted = TRUE,
                                               !.gen = app.view.gen + 1,
                                               !.slug = slug],
                   getPost |-> app.getPost
                       \cup {[gen |-> app.view.gen + 1, slug |-> slug]}]
        /\ UNCHANGED <<reading, client, share, loaderVars, pipelineVars, viewVars,
                       callVars, contentVars>>

\* a getPost promise settles; the setters of a view that is gone do nothing
SettleGetPost ==
    \E call \in app.getPost :
        \E outcome \in GetPostOutcomes(call.slug) :
            /\ app' = [view |-> IF app.view.mounted /\ app.view.gen = call.gen
                                THEN loadPost(app.view, outcome)
                                ELSE app.view,
                       getPost |-> app.getPost \ {call}]
            /\ UNCHANGED <<reading, client, share, loaderVars, pipelineVars,
                           viewVars, callVars, contentVars>>

\* React renders: the queued setter calls take effect, all at once or the
\* first of them
RenderPostView ==
    \E n \in 1..Len(app.view.queue) :
        /\ app.view.mounted
        /\ app' = [app EXCEPT !.view = commit(app.view, n)]
        /\ UNCHANGED <<reading, client, share, loaderVars, pipelineVars, viewVars,
                       callVars, contentVars>>

\* the App leaves the post: a tab is chosen, or onBack is called
UnmountPostView ==
    /\ app.view.mounted
    /\ app' = [app EXCEPT !.view = [NoPostView EXCEPT !.gen = app.view.gen]]
    /\ UNCHANGED <<reading, client, share, loaderVars, pipelineVars, viewVars,
                   callVars, contentVars>>

PostViewNext ==
    \/ MountPostView
    \/ SettleGetPost
    \/ RenderPostView
    \/ UnmountPostView

\* every getPost promise settles, and React renders what is queued
SpecPostView ==
    /\ PostViewInit
    /\ [][PostViewNext]_vars
    /\ WF_vars(SettleGetPost)
    /\ WF_vars(RenderPostView)

\* C27: in BlogPostView, loading eventually becomes false whether getPost
\* resolves with a post, resolves with null or rejects (in a view that
\* stays mounted); from then on the view shows 'Post Not Found' exactly
\* when no post was obtained, and the post otherwise.
C27_LoadingEndsAndViewMatches ==
    /\ (app.view.mounted /\ app.view.loading)
           ~> (~app.view.mounted \/ ~app.view.loading)
    /\ [](app.view.mounted /\ ~app.view.loading =>
            /\ app.view.settled
            /\ (BlogPostView(app.view) = "Post Not Found")
                   <=> ~Truthy(app.view.obtained)
            /\ Truthy(app.view.obtained) =>
                   BlogPostView(app.view) = app.view.slug)
    /\ [][(app.view.mounted /\ ~app.view.loading /\ app'.view.mounted)
              => ~app'.view.loading]_vars

\* the second view of a run has finished loading without a post, the
\* promise of the first one still pending
C27_Witness ==
    /\ app.view.mounted
    /\ app.view.gen = 2
    /\ ~app.view.loading
    /\ BlogPostView(app.view) = "Post Not Found"
    /\ app.getPost # {}

(***************************************************************************)
(* ShareButtons.copyLink: each click starts a clipboard write; a write     *)
(* that succeeds sets copied and starts a timer that clears it.  All       *)
(* timers have the same delay, so they fire in the order they were         *)
(* started.                                                                *)
(***************************************************************************)
MaxClicks == 4

\* copyLink up to the await: navigator.clipboard.writeText(url) is called
copyLink(state) ==
    [state EXCEPT !.clicks = @ + 1, !.writes = @ \cup {state.clicks + 1}]

\* the write of click id succeeded: setCopied(true); setTimeout(..., 2000)
writeResolved(state, id) ==
    [state EXCEPT !.writes = @ \ {id},
                  !.copied = TRUE,
                  !.timers = Append(@, id),
                  !.last = "copied"]

\* the write of click id failed: the catch block logs the error
writeRejected(state, id) ==
    [state EXCEPT !.writes = @ \ {id}, !.last = "failed"]

\* the oldest timer fires: setCopied(false)
timerFired(state) ==
    [state EXCEPT !.timers = Tail(@), !.copied = FALSE, !.last = "timer"]

ShareInit ==
    /\ share = [copied |-> FALSE, clicks |-> 0, writes |-> {}, timers |-> <<>>,
                last |-> "none"]
    /\ reading = "off" /\ client = "off" /\ app = "off"
    /\ LoaderOff /\ PipelineOff /\ ViewOff /\ CallsOff

ClickCopyLink ==
    /\ share.clicks < MaxClicks
    /\ share' = copyLink(share)
    /\ UNCHANGED <<reading, client, app, loaderVars, pipelineVars, viewVars,
                   callVars, contentVars>>

WriteSucceeds ==
    \E id \in share.writes :
        /\ share' = writeResolved(share, id)
        /\ UNCHANGED <<reading, client, app, loaderVars, pipelineVars, viewVars,
                       callVars, contentVars>>

WriteFails ==
    \E id \in share.writes :
        /\ share' = writeRejected(share, id)
        /\ UNCHANGED <<reading, client, app, loaderVars, pipelineVars, viewVars,
                       callVars, contentVars>>

TimerFires ==
    /\ share.timers # <<>>
    /\ share' = timerFired(share)
    /\ UNCHANGED <<reading, client, app, loaderVars, pipelineVars, viewVars,
                   callVars, contentVars>>

ShareNext == ClickCopyLink \/ WriteSucceeds \/ WriteFails \/ TimerFires

SpecShare == ShareInit /\ [][ShareNext]_vars

\* C28: in ShareButtons, each successful copyLink sets copied to true and
\* copied stays true until the 2000 ms timer started by that copy fires,
\* after which it is false; a failed clipboard write leaves copied
\* unchanged.  This for any sequence of clicks, a second click within
\* 2000 ms of the first included.
C28_CopiedUntilOwnTimer ==
    /\ share.timers # <<>> => share.copied
    /\ share.last = "timer" => ~share.copied
    /\ share.last = "copied" => share.copied

(***************************************************************************)
(* The App that keeps dark mode in localStorage through effects: at mount  *)
(* its effects run in the order they are written, each with the            *)
(* isDarkMode of the first render, and the effect that writes runs again   *)
(* after every render that changed isDarkMode.                             *)
(***************************************************************************)
\* the mount effects, in the order of the source
LegacyEffects == <<"prefersDark", "write", "read">>

\* useEffect(() => { if (prefersDark) setIsDarkMode(true) }, [prefersDark])
prefersDarkEffect(state) ==
    IF state.prefersDark THEN [state EXCEPT !.queue = Append(@, "true")]
    ELSE state

\* useEffect(() => { localStorage.setItem('darkMode',
\*                   JSON.stringify(isDarkMode)) }, [isDarkMode])
writeEffect(state) == [state EXCEPT !.stored = JSONstringify(state.closure)]

\* useEffect(() => { const storedDarkMode = localStorage.getItem('darkMode');
\*                   if (storedDarkMode) setIsDarkMode(JSON.parse(...)) }, [])
readEffect(state) ==
    IF state.stored # ""
    THEN [state EXCEPT !.queue = Append(@, JSONstringify(JSONparse(state.stored))),
                       !.read = state.stored]
    ELSE state

\* a render: the queue is applied; the write effect is due when isDarkMode
\* has changed
renderLegacy(state) ==
    LET value == reduceQueue(state.isDarkMode, state.queue)
    IN  [state EXCEPT !.isDarkMode = value, !.closure = value, !.queue = <<>>,
                      !.writeDue = (value # state.isDarkMode)]

LegacyInit ==
    /\ app \in {[activeTab |-> "home", isDarkMode |-> TRUE, closure |-> TRUE,
                 queue |-> <<>>, effect |-> 1, writeDue |-> FALSE,
                 toggled |-> FALSE, prefersDark |-> prefersDark,
                 stored |-> stored, before |-> stored, read |-> ""] :
                    prefersDark \in BOOLEAN, stored \in StoredValues}
    /\ reading = "off" /\ client = "off" /\ share = "off"
    /\ LoaderOff /\ PipelineOff /\ ViewOff /\ CallsOff

\* the next mount effect runs
RunLegacyEffect ==
    /\ app.effect <= Len(LegacyEffects)
    /\ LET ran == CASE LegacyEffects[app.effect] = "prefersDark" -> prefersDarkEffect(app)
                    [] LegacyEffects[app.effect] = "write" -> writeEffect(app)
                    [] LegacyEffects[app.effect] = "read" -> readEffect(app)
       IN  app' = [ran EXCEPT !.effect = @ + 1]
    /\ UNCHANGED <<reading, client, share, loaderVars, pipelineVars, viewVars,
                   callVars, contentVars>>

RenderLegacy ==
    /\ app.effect > Len(LegacyEffects)
    /\ ~app.writeDue
    /\ app.queue # <<>>
    /\ app' = renderLegacy(app)
    /\ UNCHANGED <<reading, client, share, loaderVars, pipelineVars, viewVars,
                   callVars, contentVars>>

\* the write effect runs again after a render that changed isDarkMode
RerunWriteEffect ==
    /\ app.writeDue
    /\ app' = [writeEffect(app) EXCEPT !.writeDue = FALSE]
    /\ UNCHANGED <<reading, client, share, loaderVars, pipelineVars, viewVars,
                   callVars, contentVars>>

\* toggleDarkMode: setIsDarkMode(prev => !prev)
ToggleLegacy ==
    /\ app.effect > Len(LegacyEffects)
    /\ ~app.writeDue
    /\ Len(app.queue) < MaxQueued
    /\ app' = [app EXCEPT !.queue = Append(@, "not"), !.toggled = TRUE]
    /\ UNCHANGED <<reading, client, share, loaderVars, pipelineVars, viewVars,
                   callVars, contentVars>>

\* handleTabChange: setActiveTab(tab)
TabLegacy ==
    \E tab \in {"home", "blog"} :
        /\ app.effect > Len(LegacyEffects)
        /\ tab # app.activeTab
        /\ app' = [app EXCEPT !.activeTab = tab]
        /\ UNCHANGED <<reading, client, share, loaderVars, pipelineVars, viewVars,
                       callVars, contentVars>>

LegacyNext ==
    \/ RunLegacyEffect
    \/ RenderLegacy
    \/ RerunWriteEffect
    \/ ToggleLegacy
    \/ TabLegacy

SpecLegacy == LegacyInit /\ [][LegacyNext]_vars

\* C29: in the App that persists dark mode through effects, a 'darkMode'
\* value stored in localStorage before mount is the value isDarkMode holds
\* once all mount effects have run and their updates are rendered: the
\* effect that writes isDarkMode to localStorage never overwrites the
\* stored preference before the effect that reads it.
C29_StoredPreferenceSurvivesMount ==
    /\ (app.before # "" /\ app.effect <= Len(LegacyEffects)) =>
           app.stored = app.before
    /\ (app.before # "" /\ app.effect > Len(LegacyEffects)) =>
           app.read = app.before
    /\ (/\ app.before # ""
        /\ app.effect > Len(LegacyEffects)
        /\ app.queue = <<>>
        /\ ~app.toggled) =>
           app.isDarkMode = JSONparse(app.before)

====
